---- MODULE Spec2Model ----
(***************************************************************************)
(* Retry / circuit-breaker / alerting core of space-cap/vibe               *)
(*   airflow/utils/retry_handler.py : RetryHandler, CircuitBreaker         *)
(*   airflow/utils/monitoring.py    : AlertManager, PipelineMonitor        *)
(* Each component has its own specification; the variables of the other    *)
(* components stay at their constructed values.                            *)
(*   SpecRetry, SpecBreaker    one caller at a time                        *)
(*   SpecRetryWorkers, SpecBreakerWorkers                                  *)
(*                             several worker threads on one instance      *)
(*   SpecAlert                 process_metrics_and_alerts                  *)
(*   SpecEngine                add_alert_rule and check_alert_conditions   *)
(*   SpecMonitor, SpecMonitorFair                                          *)
(*                             start_monitoring, stop_monitoring and the   *)
(*                             monitoring loop, without and with fairness  *)
(***************************************************************************)
EXTENDS Integers, Sequences, FiniteSets, TLC

(***************************************************************************)
(* Bounds of the model                                                     *)
(***************************************************************************)
\* largest max_retries a RetryHandler is constructed with
MaxRetriesBound == 3
\* retry calls made on one RetryHandler in one behaviour
MaxCalls == 2
\* largest failure_threshold a CircuitBreaker is constructed with
MaxThreshold == 2
\* largest recovery_timeout (in clock ticks) a CircuitBreaker is constructed with
MaxRecoveryTimeout == 2
\* last tick of the clock read by time.time()
MaxTime == 5
\* calls of process_metrics_and_alerts in one behaviour
MaxCycles == 2
\* last minute of the clock read by datetime.now()
MaxWall == 16
\* rules registered with add_alert_rule after construction
MaxCustomRules == 2
\* calls of start_monitoring / stop_monitoring in one behaviour
MaxLifecycleCalls == 4
\* worker threads that call one RetryHandler or one CircuitBreaker
MaxWorkers == 2
\* events in the alert history when the statistics are asked for
MaxHistory == 12
\* the first attempt numbers calculate_delay is called with
MaxAttempt == 4
\* largest max_requests of a rate limiter
MaxRequests == 2
\* largest window_size of a rate limiter, in seconds
MaxWindow == 2
\* last second of the clock read by is_allowed
MaxLimiterTime == 3
\* calls of is_allowed in one behaviour
MaxLimiterCalls == 5

VARIABLES
    \* ---- RetryHandler (retry_handler.py:20-227)
    max_retries,      \* self.max_retries
    config,           \* self.base_delay, max_delay, strategy, backoff_factor, jitter
    delay_result,     \* what a call of calculate_delay on its own gave (NoDelay: no call)
    retry_decision,   \* what a call of should_retry on its own gave (NoDecision: no call)
    mode_runs,        \* a retry_sync call and a retry_async call over the same outcomes
    retry_stats,      \* self.retry_stats: operation name -> stats record
    rpc,              \* position of the retry call: idle/running/sleeping/returned/raised
    mode,             \* "sync" (retry_sync) or "async" (retry_async)
    operation_name,   \* local operation_name of the call
    attempt,          \* loop variable attempt
    last_exception,   \* local last_exception
    outcome,          \* what the call handed to its caller (value or error)
    invoked,          \* history: result of each invocation of func in this call
    sleeps,           \* history: the sleeps of the call, each after an attempt for a delay
    stats_before,     \* history: retry_stats when the call started
    calls,            \* history: number of retry calls started
    \* ---- CircuitBreaker (retry_handler.py:277-326)
    failure_threshold,   \* self.failure_threshold
    recovery_timeout,    \* self.recovery_timeout
    expected_exception,  \* self.expected_exception: the classes caught
    failure_count,       \* self.failure_count
    last_failure_time,   \* self.last_failure_time (NoTime: None)
    state,               \* self.state
    now,                 \* time.time()
    bpc,                 \* position of the wrapper: idle / invoking
    bcall,               \* history: the latest call of the wrapper
    \* ---- AlertManager (monitoring.py:168-405)
    smtp_configured,     \* all([self.smtp_host, self.smtp_user, self.smtp_password])
    webhook_urls,        \* self.webhook_urls
    alert_rules,         \* self.alert_rules
    alert_history,       \* self.alert_history
    wall,                \* datetime.now(), in minutes
    apc,                 \* position of process_metrics_and_alerts: idle / gathering / raised
    metrics,             \* the snapshot passed to the call
    triggered_alerts,    \* local triggered_alerts: indices into alert_rules
    alert_tasks,         \* the coroutines handed to asyncio.gather, not yet run
    sent,                \* history: the sends issued in this call
    history_before,      \* history: len(alert_history) when the call started
    cycles,              \* history: calls of process_metrics_and_alerts started
    \* ---- PipelineMonitor (monitoring.py:408-470)
    monitoring_active,   \* self.monitoring_active
    monitoring_thread,   \* self.monitoring_thread: NoThread or an index into loops
    loops,               \* the threads started so far, each running monitoring_loop
    lpc,                 \* position of the lifecycle thread: idle / joining
    mlast,               \* history: the latest start_monitoring / stop_monitoring call
    mcalls,              \* history: number of start_monitoring / stop_monitoring calls
    \* ---- concurrent workers on one RetryHandler / one CircuitBreaker
    workers,             \* per worker: position and locals of its call
    stats_id,            \* identity of the dict held under the operation name
    tally,               \* history: invocations of func made, calls returned or failed,
                         \* calls admitted to func in the current HALF_OPEN episode
    \* ---- the caller of the alert manager (monitoring_dag.py:300-326)
    objects,             \* the dict objects nested in snapshots, by identity
    combined_metrics,    \* the caller's snapshot dict: key -> value or reference
    snapshot_taken,      \* history: per history event, the snapshot's content when stored
    alert_stats,         \* what get_alert_statistics returned to the caller (NoStatistics: no call)
    \* ---- InMemoryRateLimiter (rate_limit.py:13-44)
    max_requests,        \* self.max_requests
    window_size,         \* self.window_size
    requests,            \* self.requests: client id -> list of the times of its admitted calls
    current_time,        \* the clock read by time.time() in is_allowed
    decisions            \* history: per call of is_allowed, the client, the time and the result

retryVars == <<max_retries, config, delay_result, retry_decision, mode_runs, retry_stats, rpc, mode, operation_name, attempt,
               last_exception, outcome, invoked, sleeps, stats_before, calls>>

breakerVars == <<failure_threshold, recovery_timeout, expected_exception, failure_count,
                 last_failure_time, state, now, bpc, bcall>>

alertVars == <<smtp_configured, webhook_urls, alert_rules, alert_history, wall, apc, metrics,
               triggered_alerts, alert_tasks, sent, history_before, cycles>>

monitorVars == <<monitoring_active, monitoring_thread, loops, lpc, mlast, mcalls>>

workerVars == <<workers, stats_id, tally>>

callerVars == <<objects, combined_metrics, snapshot_taken, alert_stats>>

limiterVars == <<max_requests, window_size, requests, current_time, decisions>>

vars == <<retryVars, breakerVars, alertVars, monitorVars, workerVars, callerVars, limiterVars>>

\* what the operations of one component leave alone
notRetryVars == <<breakerVars, alertVars, monitorVars, workerVars, callerVars, limiterVars>>
notBreakerVars == <<retryVars, alertVars, monitorVars, workerVars, callerVars, limiterVars>>
notAlertVars == <<retryVars, breakerVars, monitorVars, workerVars, callerVars, limiterVars>>
notMonitorVars == <<retryVars, breakerVars, workerVars, callerVars, limiterVars>>

(***************************************************************************)
(* Exceptions.  An exception is a record [kind, origin]: kind is its       *)
(* Python class, origin the attempt whose invocation of func raised it     *)
(* (0: not raised by func).                                                *)
(***************************************************************************)
NoneValue == [kind |-> "None", origin |-> 0]

\* Python's built-in class hierarchy, for isinstance()
Ancestors(kind) ==
    CASE kind = "ConnectionError"   -> {"ConnectionError", "OSError", "Exception", "BaseException"}
      [] kind = "TimeoutError"      -> {"TimeoutError", "OSError", "Exception", "BaseException"}
      [] kind = "OSError"           -> {"OSError", "Exception", "BaseException"}
      [] kind = "MemoryError"       -> {"MemoryError", "Exception", "BaseException"}
      [] kind = "SyntaxError"       -> {"SyntaxError", "Exception", "BaseException"}
      [] kind = "TypeError"         -> {"TypeError", "Exception", "BaseException"}
      [] kind = "ValueError"        -> {"ValueError", "Exception", "BaseException"}
      [] kind = "RuntimeError"      -> {"RuntimeError", "Exception", "BaseException"}
      [] kind = "UnsupportedOperation" ->
             {"UnsupportedOperation", "OSError", "ValueError", "Exception", "BaseException"}
      [] kind = "Exception"         -> {"Exception", "BaseException"}
      [] kind = "KeyboardInterrupt" -> {"KeyboardInterrupt", "BaseException"}
      [] kind = "SystemExit"        -> {"SystemExit", "BaseException"}
      [] OTHER                      -> {}

IsInstance(kind, classes) == Ancestors(kind) \cap classes # {}

\* should_retry: retryable_exceptions (IOError is OSError)
retryable_exceptions == {"ConnectionError", "TimeoutError", "OSError"}

\* should_retry: non_retryable_exceptions
non_retryable_exceptions ==
    {"KeyboardInterrupt", "SystemExit", "MemoryError", "SyntaxError", "TypeError", "ValueError"}

\* the error kinds the wrapped operation raises in the model: one retryable,
\* one non-retryable, one unknown, one that "except Exception" does not catch
ExceptionKinds == {"TimeoutError", "ValueError", "RuntimeError", "KeyboardInterrupt"}

\* operation names used by the callers in the model
OperationNames == {"extract_raw_data", "load_data"}

(***************************************************************************)
(* RetryHandler                                                            *)
(***************************************************************************)
\* mutant: the retry budget ends one attempt early
should_retry_early(exception, att) ==
    IF att >= max_retries - 1 THEN FALSE
    ELSE IF IsInstance(exception.kind, non_retryable_exceptions) THEN FALSE
    ELSE TRUE

\* mutant: the non-retryable classes are not looked at
should_retry_any(exception, att) ==
    IF att >= max_retries THEN FALSE ELSE TRUE

\* mutant: the retryable classes are looked at before the non-retryable ones
should_retry_retryable_first(exception, att) ==
    IF att >= max_retries THEN FALSE
    ELSE IF IsInstance(exception.kind, retryable_exceptions) THEN TRUE
    ELSE IF IsInstance(exception.kind, non_retryable_exceptions) THEN FALSE
    ELSE TRUE

\* RetryHandler.should_retry(exception, attempt)
should_retry(exception, att) ==
    IF att >= max_retries THEN FALSE
    ELSE IF IsInstance(exception.kind, non_retryable_exceptions) THEN FALSE
    ELSE IF IsInstance(exception.kind, retryable_exceptions) THEN TRUE
    ELSE TRUE

RECURSIVE Gcd(_, _)
Gcd(a, b) == IF b = 0 THEN a ELSE Gcd(b, a % b)

\* a / b as a fraction in lowest terms <<numerator, denominator>>
Fraction(a, b) == LET g == Gcd(a, b) IN IF g = 0 THEN <<0, 1>> ELSE <<a \div g, b \div g>>

\* the record _record_attempt creates for a name it has not seen
EmptyStats ==
    [total_attempts |-> 0, successful_operations |-> 0, failed_operations |-> 0,
     exception_counts |-> << >>, average_attempts_to_success |-> <<0, 1>>]

\* dict.get(key, 0) on an exception_counts mapping
CountOf(counts, key) == IF key \in DOMAIN counts THEN counts[key] ELSE 0

\* mutant: the attempt before the last one counts as a final failure too
IsFinalFailure_wide(att) == att >= max_retries - 1

\* the "Final failure" test of _record_attempt
IsFinalFailure(att) == att = max_retries

\* mutant: the mean is taken over all the attempts recorded, not over the
\* successful operations
record_attempt_mean_of_all(stats, name, att, success, exception) ==
    LET s0 == IF name \in DOMAIN stats THEN stats[name] ELSE EmptyStats
        s1 == [s0 EXCEPT !.total_attempts = @ + 1]
        s2 == IF success
              THEN LET n == s1.successful_operations + 1
                       avg == s1.average_attempts_to_success
                   IN [s1 EXCEPT !.successful_operations = n,
                                 !.average_attempts_to_success =
                                     Fraction(avg[1] * (n - 1) + att * avg[2],
                                              avg[2] * s1.total_attempts)]
              ELSE s1
        s3 == IF exception # NoneValue
              THEN LET c == [k \in DOMAIN s2.exception_counts \cup {exception.kind} |->
                                IF k = exception.kind
                                THEN CountOf(s2.exception_counts, k) + 1
                                ELSE s2.exception_counts[k]]
                   IN [s2 EXCEPT !.exception_counts = c,
                                 !.failed_operations =
                                     IF IsFinalFailure(att) THEN @ + 1 ELSE @]
              ELSE s2
    IN [n \in DOMAIN stats \cup {name} |-> IF n = name THEN s3 ELSE stats[n]]

\* RetryHandler._record_attempt(operation_name, attempt, success, exception);
\* the value is the new retry_stats
record_attempt(stats, name, att, success, exception) ==
    LET s0 == IF name \in DOMAIN stats THEN stats[name] ELSE EmptyStats
        s1 == [s0 EXCEPT !.total_attempts = @ + 1]
        s2 == IF success
              THEN LET n == s1.successful_operations + 1
                       avg == s1.average_attempts_to_success
                   IN [s1 EXCEPT !.successful_operations = n,
                                 !.average_attempts_to_success =
                                     Fraction(avg[1] * (n - 1) + att * avg[2], avg[2] * n)]
              ELSE s1
        s3 == IF exception # NoneValue
              THEN LET c == [k \in DOMAIN s2.exception_counts \cup {exception.kind} |->
                                IF k = exception.kind
                                THEN CountOf(s2.exception_counts, k) + 1
                                ELSE s2.exception_counts[k]]
                   IN [s2 EXCEPT !.exception_counts = c,
                                 !.failed_operations =
                                     IF IsFinalFailure(att) THEN @ + 1 ELSE @]
              ELSE s2
    IN [n \in DOMAIN stats \cup {name} |-> IF n = name THEN s3 ELSE stats[n]]

\* "raise last_exception" after the loop: raising None is a TypeError made by
\* the interpreter, not by func
RaiseLast(exc) == IF exc = NoneValue THEN [kind |-> "TypeError", origin |-> 0] ELSE exc

\* range(1, self.max_retries + 1) has a first element
LoopEnters == 1 <= max_retries

\* the for loop has another attempt after att
LoopContinues(att) == att + 1 <= max_retries

\* None in a time field (self.last_failure_time, AlertRule.last_triggered)
NoTime == -1

\* the latest call of the wrapper, before there was one
NoCall ==
    [entry_state |-> "none", entry_now |-> 0, entry_last_failure |-> NoTime,
     entry_count |-> 0, half_open |-> FALSE, invoked |-> FALSE,
     result |-> "none", kind |-> "None", streak |-> 0, exit_now |-> 0]

\* CircuitBreaker.__init__: the fields set from no argument
BreakerConstructed ==
    /\ failure_count = 0
    /\ last_failure_time = NoTime
    /\ state = "CLOSED"
    /\ now = 0
    /\ bpc = "idle"
    /\ bcall = NoCall

\* metric values are integers: failure_rate and data_quality_score in
\* hundredths (0.1 is 10, 0.8 is 80, 1.0 is 100), identifiers as numbers.
\* A condition is [get, key, default, op, threshold]: with get it reads
\* metrics.get(key, default), without it reads metrics[key]
\* AlertManager.setup_default_alert_rules: the rule high_failure_rate
HighFailureRate ==
    [name |-> "high_failure_rate",
     condition |-> [get |-> TRUE, key |-> "failure_rate", default |-> 0, op |-> ">", threshold |-> 10],
     severity |-> "critical", message_template |-> {"failure_rate", "dag_id"},
     cooldown_minutes |-> 15, enabled |-> TRUE, last_triggered |-> NoTime]

\* mutant: long_running_task reads the key task_duration_seconds
LongRunningTask_seconds ==
    [name |-> "long_running_task",
     condition |-> [get |-> TRUE, key |-> "task_duration_seconds", default |-> 0, op |-> ">",
                    threshold |-> 3600],
     severity |-> "warning", message_template |-> {"task_id", "dag_id", "task_duration"},
     cooldown_minutes |-> 30, enabled |-> TRUE, last_triggered |-> NoTime]

\* the rule long_running_task
LongRunningTask ==
    [name |-> "long_running_task",
     condition |-> [get |-> TRUE, key |-> "task_duration", default |-> 0, op |-> ">", threshold |-> 3600],
     severity |-> "warning", message_template |-> {"task_id", "dag_id", "task_duration"},
     cooldown_minutes |-> 30, enabled |-> TRUE, last_triggered |-> NoTime]

\* the rule low_data_quality
LowDataQuality ==
    [name |-> "low_data_quality",
     condition |-> [get |-> TRUE, key |-> "data_quality_score", default |-> 100, op |-> "<", threshold |-> 80],
     severity |-> "warning", message_template |-> {"data_quality_score", "table"},
     cooldown_minutes |-> 60, enabled |-> TRUE, last_triggered |-> NoTime]

\* the rule high_memory_usage
HighMemoryUsage ==
    [name |-> "high_memory_usage",
     condition |-> [get |-> TRUE, key |-> "memory_usage_percent", default |-> 0, op |-> ">", threshold |-> 90],
     severity |-> "critical", message_template |-> {"memory_usage_percent", "worker_id"},
     cooldown_minutes |-> 10, enabled |-> TRUE, last_triggered |-> NoTime]

\* the rule sla_violation
SlaViolation ==
    [name |-> "sla_violation",
     condition |-> [get |-> TRUE, key |-> "sla_violations", default |-> 0, op |-> ">", threshold |-> 0],
     severity |-> "critical", message_template |-> {"dag_id", "sla_violations"},
     cooldown_minutes |-> 5, enabled |-> TRUE, last_triggered |-> NoTime]

\* AlertManager.add_alert_rule
add_alert_rule(rules, alert_rule) == Append(rules, alert_rule)

\* AlertManager.setup_default_alert_rules
setup_default_alert_rules(rules) ==
    add_alert_rule(add_alert_rule(add_alert_rule(add_alert_rule(add_alert_rule(rules,
        HighFailureRate), LongRunningTask), LowDataQuality), HighMemoryUsage), SlaViolation)

\* AlertManager.__init__: the fields set from no argument
AlertConstructed ==
    /\ alert_rules = setup_default_alert_rules(<< >>)
    /\ alert_history = << >>
    /\ wall = 0
    /\ apc = "idle"
    /\ metrics = << >>
    /\ triggered_alerts = << >>
    /\ alert_tasks = << >>
    /\ sent = {}
    /\ history_before = 0
    /\ cycles = 0

\* AlertManager(): no SMTP settings, no webhook
AlertDefaults ==
    /\ smtp_configured = FALSE
    /\ webhook_urls = << >>
    /\ AlertConstructed

\* the identity that refers to no dict
NoObject == 0

\* get_alert_statistics has not been called
NoStatistics == << >>

\* no caller has built a snapshot or asked for statistics
NoCaller ==
    /\ objects = << >>
    /\ combined_metrics = NoObject
    /\ snapshot_taken = << >>
    /\ alert_stats = NoStatistics

\* no rate limiter is in use
NoLimiter ==
    /\ max_requests = 1
    /\ window_size = 1
    /\ requests = << >>
    /\ current_time = 0
    /\ decisions = << >>

\* no worker thread has been started
NoWorkers ==
    /\ workers = << >>
    /\ stats_id = 0
    /\ tally = [invoked |-> 0, returned |-> 0, failed |-> 0, trials |-> 0]

\* None in self.monitoring_thread
NoThread == 0

\* the latest lifecycle call, before there was one
NoLifecycleCall == [op |-> "none", was_active |-> FALSE, launched |-> FALSE, joined |-> NoThread]

\* PipelineMonitor.__init__
MonitorConstructed ==
    /\ monitoring_active = FALSE
    /\ monitoring_thread = NoThread
    /\ loops = << >>
    /\ lpc = "idle"
    /\ mlast = NoLifecycleCall
    /\ mcalls = 0

\* durations are in milliseconds; a value of random.random() is in thousandths
\* RetryHandler(jitter=False): the other arguments at their defaults
DeterministicConfig ==
    [base_delay |-> 1000, max_delay |-> 300000, strategy |-> "EXPONENTIAL",
     backoff_factor |-> 2, jitter |-> FALSE]

\* calculate_delay has not been called on its own
NoDelay == << >>

\* the values random.random() takes in the model, in thousandths
RandomOutcomes == {0, 500, 990}

\* sys.float_info.max_exp: x ** n raises OverflowError from 2.0 ** 1024 on
FloatMaxExp == 1024

\* the exponent of a power of two
RECURSIVE Log2(_)
Log2(f) == IF f <= 1 THEN 0 ELSE 1 + Log2(f \div 2)

\* self.backoff_factor ** n raises OverflowError
PowerOverflows(f, n) == f > 1 /\ n * Log2(f) >= FloatMaxExp

Min(a, b) == IF a <= b THEN a ELSE b

\* delays are computed up to this value: with a jitter factor of at least 0.5
\* a delay that reaches it is cut to max_delay by the closing min()
DelayCap(cfg) == 2 * cfg.max_delay + 2

\* min(acc * f ** n, cap)
RECURSIVE ScaledPower(_, _, _, _)
ScaledPower(acc, f, n, cap) ==
    IF n = 0 \/ f = 1 \/ acc = 0 \/ acc >= cap THEN Min(acc, cap)
    ELSE ScaledPower(acc * f, f, n - 1, cap)

\* mutant: the exponential delay is base_delay * backoff_factor ** attempt
ExponentOf_attempt(att) == att

\* the exponent of backoff_factor in calculate_delay
ExponentOf(att) == att - 1

\* RetryHandler.calculate_delay(attempt) when random.random() gives r:
\* the call raises, or returns delay
calculate_delay(cfg, att, r) ==
    LET cap == DelayCap(cfg)
        overflow == /\ cfg.strategy \in {"EXPONENTIAL", "JITTER"}
                    /\ PowerOverflows(cfg.backoff_factor, ExponentOf(att))
        exponential == ScaledPower(cfg.base_delay, cfg.backoff_factor, ExponentOf(att), cap)
        delay == CASE cfg.strategy = "FIXED" -> Min(cfg.base_delay, cap)
                   [] cfg.strategy = "LINEAR" -> Min(cfg.base_delay * att, cap)
                   [] cfg.strategy = "EXPONENTIAL" -> exponential
                   [] cfg.strategy = "JITTER" -> (exponential * (1000 + r)) \div 2000
                   [] OTHER -> Min(cfg.base_delay, cap)
        jittered == IF cfg.jitter /\ cfg.strategy # "JITTER"
                    THEN delay + (delay * r) \div 10000
                    ELSE delay
    IN IF overflow THEN [raises |-> TRUE, delay |-> 0]
       ELSE [raises |-> FALSE, delay |-> Min(jittered, cfg.max_delay)]

\* should_retry has not been called on its own
NoDecision == << >>

\* no pair of calls has been run
NoRuns == << >>

\* RetryHandler.__init__
RetryConstructed ==
    /\ delay_result = NoDelay
    /\ retry_decision = NoDecision
    /\ mode_runs = NoRuns
    /\ retry_stats = << >>
    /\ rpc = "idle"
    /\ mode = "sync"
    /\ operation_name = "extract_raw_data"
    /\ attempt = 0
    /\ last_exception = NoneValue
    /\ outcome = [tag |-> "none", kind |-> "None", origin |-> 0]
    /\ invoked = << >>
    /\ sleeps = << >>
    /\ stats_before = << >>
    /\ calls = 0

InitRetry ==
    /\ max_retries \in 0..MaxRetriesBound
    /\ config = DeterministicConfig
    /\ RetryConstructed
    /\ BreakerConstructed
    /\ failure_threshold = 1
    /\ recovery_timeout = 1
    /\ expected_exception = {"Exception"}
    /\ AlertDefaults
    /\ MonitorConstructed
    /\ NoCaller
    /\ NoLimiter
    /\ NoWorkers

\* entry of retry_sync / retry_async up to the first invocation of func
retry_enter(m, name) ==
    /\ rpc \in {"idle", "returned", "raised"}
    /\ calls < MaxCalls
    /\ calls' = calls + 1
    /\ mode' = m
    /\ operation_name' = name
    /\ last_exception' = NoneValue
    /\ invoked' = << >>
    /\ sleeps' = << >>
    /\ stats_before' = retry_stats
    /\ IF LoopEnters
       THEN /\ rpc' = "running"
            /\ attempt' = 1
            /\ outcome' = [tag |-> "none", kind |-> "None", origin |-> 0]
       ELSE /\ rpc' = "raised"
            /\ attempt' = 0
            /\ outcome' = [tag |-> "error", kind |-> RaiseLast(NoneValue).kind,
                           origin |-> RaiseLast(NoneValue).origin]
    /\ UNCHANGED <<max_retries, config, delay_result, retry_decision, mode_runs, retry_stats>>
    /\ UNCHANGED notRetryVars

\* one pass of the loop body, on the handler's own fields: func is invoked
\* and ends as `res` ("ok" or the class of the exception it raises)
retry_handles(res) ==
    /\ rpc = "running"
    /\ invoked' = Append(invoked, res)
    /\ IF res = "ok"
       THEN \* _record_attempt(operation_name, attempt, True, None); return result
            /\ retry_stats' = record_attempt(retry_stats, operation_name, attempt, TRUE, NoneValue)
            /\ outcome' = [tag |-> "value", kind |-> "ok", origin |-> attempt]
            /\ rpc' = "returned"
            /\ UNCHANGED last_exception
       ELSE LET e == [kind |-> res, origin |-> attempt] IN
            IF ~IsInstance(res, {"Exception"})
            THEN \* not caught by "except Exception": leaves the call as it is
                 /\ outcome' = [tag |-> "error", kind |-> e.kind, origin |-> e.origin]
                 /\ rpc' = "raised"
                 /\ UNCHANGED <<retry_stats, last_exception>>
            ELSE /\ last_exception' = e
                 /\ IF ~should_retry(e, attempt)
                    THEN \* record, break, raise last_exception
                         /\ retry_stats' = record_attempt(retry_stats, operation_name, attempt, FALSE, e)
                         /\ outcome' = [tag |-> "error", kind |-> RaiseLast(e).kind,
                                        origin |-> RaiseLast(e).origin]
                         /\ rpc' = "raised"
                    ELSE IF attempt < max_retries
                         THEN \* calculate_delay(attempt), then sleep
                              /\ rpc' = "sleeping"
                              /\ UNCHANGED <<retry_stats, outcome>>
                         ELSE \* no sleep: record and go on with the loop
                              /\ retry_stats' = record_attempt(retry_stats, operation_name, attempt, FALSE, e)
                              /\ IF LoopContinues(attempt)
                                 THEN rpc' = "running" /\ UNCHANGED outcome
                                 ELSE /\ rpc' = "raised"
                                      /\ outcome' = [tag |-> "error", kind |-> RaiseLast(e).kind,
                                                     origin |-> RaiseLast(e).origin]
    /\ attempt' = IF rpc' = "running" THEN attempt + 1 ELSE attempt
    /\ UNCHANGED <<max_retries, config, delay_result, retry_decision, mode_runs, mode, operation_name, sleeps, stats_before, calls>>

\* one pass of the loop body around a func that touches nothing else
retry_attempt(res) ==
    /\ retry_handles(res)
    /\ UNCHANGED notRetryVars

\* time.sleep(delay) / await asyncio.sleep(delay) returns; the failed attempt
\* is recorded and the loop goes on
retry_wakes(r) ==
    /\ rpc = "sleeping"
    /\ LET delay == calculate_delay(config, attempt, r) IN
       IF delay.raises
       THEN \* calculate_delay raises inside the except block: no sleep, no record
            /\ rpc' = "raised"
            /\ outcome' = [tag |-> "error", kind |-> "OverflowError", origin |-> 0]
            /\ UNCHANGED <<sleeps, retry_stats, attempt>>
       ELSE /\ sleeps' = Append(sleeps, [after |-> attempt, delay |-> delay.delay])
            /\ retry_stats' = record_attempt(retry_stats, operation_name, attempt, FALSE,
                                             last_exception)
            /\ IF LoopContinues(attempt)
               THEN rpc' = "running" /\ attempt' = attempt + 1 /\ UNCHANGED outcome
               ELSE /\ rpc' = "raised"
                    /\ outcome' = [tag |-> "error", kind |-> RaiseLast(last_exception).kind,
                                   origin |-> RaiseLast(last_exception).origin]
                    /\ UNCHANGED attempt
    /\ UNCHANGED <<max_retries, config, delay_result, retry_decision, mode_runs, mode, operation_name, last_exception,
                   invoked, stats_before, calls>>
    /\ UNCHANGED notRetryVars

\* calculate_delay(attempt) with some value of random.random(), and the sleep
retry_wake == \E r \in RandomOutcomes : retry_wakes(r)

retry_sync == \E name \in OperationNames : retry_enter("sync", name)

retry_async == \E name \in OperationNames : retry_enter("async", name)

func_returns == retry_attempt("ok")

func_raises == \E k \in ExceptionKinds : retry_attempt(k)

NextRetry ==
    \/ retry_sync
    \/ retry_async
    \/ func_returns
    \/ func_raises
    \/ retry_wake

SpecRetry == InitRetry /\ [][NextRetry]_vars

(***************************************************************************)
(* RetryHandler built with any strategy, with and without jitter, and with *)
(* a max_delay above and below the delays of the first attempts            *)
(***************************************************************************)
\* the configurations the retried calls run under in the model
RetryConfigs ==
    [base_delay : {1000}, max_delay : {1500, 300000},
     strategy : {"FIXED", "LINEAR", "EXPONENTIAL", "JITTER"},
     backoff_factor : {2}, jitter : BOOLEAN]

InitRetryDelays ==
    /\ max_retries \in 1..MaxRetriesBound
    /\ config \in RetryConfigs
    /\ RetryConstructed
    /\ BreakerConstructed
    /\ failure_threshold = 1
    /\ recovery_timeout = 1
    /\ expected_exception = {"Exception"}
    /\ AlertDefaults
    /\ MonitorConstructed
    /\ NoCaller
    /\ NoLimiter
    /\ NoWorkers

\* the error classes the operation raises under these configurations
DelayErrorKinds == {"TimeoutError", "ValueError"}

\* one call of retry_sync
retry_once == calls = 0 /\ retry_enter("sync", "extract_raw_data")

func_fails == \E k \in DelayErrorKinds : retry_attempt(k)

NextRetryDelays ==
    \/ retry_once
    \/ func_returns
    \/ func_fails
    \/ retry_wake

SpecRetryDelays == InitRetryDelays /\ [][NextRetryDelays]_vars

(***************************************************************************)
(* retry_sync and retry_async, each as the run of its own loop over the    *)
(* outcomes of the invocations: outcomes[i] is "ok" or the class of the    *)
(* error with which the i-th invocation of the operation ends, r the       *)
(* value random.random() gives.  A run is the invocations made, the delays *)
(* slept, the _record_attempt calls in order, the stats and the result.    *)
(***************************************************************************)
\* a run before the loop starts
RunStart(stats) ==
    [invocations |-> 0, delays |-> << >>, records |-> << >>, stats |-> stats,
     result |-> [tag |-> "none", kind |-> "None", origin |-> 0]]

\* self._record_attempt(operation_name, attempt, success, exception) in a run
Recorded(run, name, att, success, exception) ==
    [run EXCEPT !.records = Append(@, [attempt |-> att, success |-> success,
                                       exception |-> exception]),
                !.stats = record_attempt(@, name, att, success, exception)]

\* "raise last_exception" ends a run
Raised(run, exc) ==
    [run EXCEPT !.result = [tag |-> "error", kind |-> RaiseLast(exc).kind,
                            origin |-> RaiseLast(exc).origin]]

\* retry_sync: the for loop from attempt att on
RECURSIVE sync_loop(_, _, _, _, _, _)
sync_loop(name, outcomes, r, att, last, run) ==
    IF att > max_retries THEN Raised(run, last)
    ELSE LET res == outcomes[att]
             invoked_run == [run EXCEPT !.invocations = @ + 1]
             e == [kind |-> res, origin |-> att]
         IN IF res = "ok"
            THEN [Recorded(invoked_run, name, att, TRUE, NoneValue) EXCEPT
                     !.result = [tag |-> "value", kind |-> "ok", origin |-> att]]
            ELSE IF ~IsInstance(res, {"Exception"})
            THEN [invoked_run EXCEPT !.result = [tag |-> "error", kind |-> res, origin |-> att]]
            ELSE IF ~should_retry(e, att)
            THEN Raised(Recorded(invoked_run, name, att, FALSE, e), e)
            ELSE IF att < max_retries
            THEN LET delay == calculate_delay(config, att, r)
                 IN IF delay.raises
                    THEN [invoked_run EXCEPT
                             !.result = [tag |-> "error", kind |-> "OverflowError", origin |-> 0]]
                    ELSE \* time.sleep(delay)
                         sync_loop(name, outcomes, r, att + 1, e,
                                   Recorded([invoked_run EXCEPT !.delays = Append(@, delay.delay)],
                                            name, att, FALSE, e))
            ELSE sync_loop(name, outcomes, r, att + 1, e,
                           Recorded(invoked_run, name, att, FALSE, e))

\* RetryHandler.retry_sync(func, operation_name=name)
retry_sync_run(name, outcomes, r, stats) ==
    sync_loop(name, outcomes, r, 1, NoneValue, RunStart(stats))

\* the kinds of callable retry_async is given
FuncKinds == {"function", "coroutine function"}

\* mutant: the coroutine a coroutine function returns is not awaited, the
\* invocation ends by returning it
async_invokes_unawaited(func_kind, res) ==
    IF func_kind = "coroutine function" THEN "ok" ELSE res

\* retry_async: "await func(...)" if asyncio.iscoroutinefunction(func),
\* else "func(...)": how the invocation ends
async_invokes(func_kind, res) ==
    IF func_kind = "coroutine function" THEN res ELSE res

\* retry_async: the for loop from attempt att on
RECURSIVE async_loop(_, _, _, _, _, _, _)
async_loop(name, func_kind, outcomes, r, att, last, run) ==
    IF att > max_retries THEN Raised(run, last)
    ELSE LET res == async_invokes(func_kind, outcomes[att])
             invoked_run == [run EXCEPT !.invocations = @ + 1]
             e == [kind |-> res, origin |-> att]
         IN IF res = "ok"
            THEN [Recorded(invoked_run, name, att, TRUE, NoneValue) EXCEPT
                     !.result = [tag |-> "value", kind |-> "ok", origin |-> att]]
            ELSE IF ~IsInstance(res, {"Exception"})
            THEN [invoked_run EXCEPT !.result = [tag |-> "error", kind |-> res, origin |-> att]]
            ELSE IF ~should_retry(e, att)
            THEN Raised(Recorded(invoked_run, name, att, FALSE, e), e)
            ELSE IF att < max_retries
            THEN LET delay == calculate_delay(config, att, r)
                 IN IF delay.raises
                    THEN [invoked_run EXCEPT
                             !.result = [tag |-> "error", kind |-> "OverflowError", origin |-> 0]]
                    ELSE \* await asyncio.sleep(delay)
                         async_loop(name, func_kind, outcomes, r, att + 1, e,
                                    Recorded([invoked_run EXCEPT !.delays = Append(@, delay.delay)],
                                             name, att, FALSE, e))
            ELSE async_loop(name, func_kind, outcomes, r, att + 1, e,
                            Recorded(invoked_run, name, att, FALSE, e))

\* RetryHandler.retry_async(func, operation_name=name)
retry_async_run(name, func_kind, outcomes, r, stats) ==
    async_loop(name, func_kind, outcomes, r, 1, NoneValue, RunStart(stats))

\* how an invocation of the operation ends
Outcomes == {"ok"} \cup ExceptionKinds

\* the stats the handler holds before the calls: none, or one earlier success
PriorStats == {<< >>, record_attempt(<< >>, "extract_raw_data", 2, TRUE, NoneValue)}

\* the configurations the two modes are run under
ModeConfigs ==
    [base_delay : {1000}, max_delay : {1500}, strategy : {"LINEAR", "JITTER"},
     backoff_factor : {2}, jitter : BOOLEAN]

InitRetryModes ==
    /\ max_retries \in 0..MaxRetriesBound
    /\ config \in ModeConfigs
    /\ RetryConstructed
    /\ BreakerConstructed
    /\ failure_threshold = 1
    /\ recovery_timeout = 1
    /\ expected_exception = {"Exception"}
    /\ AlertDefaults
    /\ MonitorConstructed
    /\ NoCaller
    /\ NoLimiter
    /\ NoWorkers

\* the same operation is run under retry_sync and under retry_async, on
\* handlers with the same configuration and stats
run_both_modes ==
    /\ mode_runs = NoRuns
    /\ \E outcomes \in [1..max_retries -> Outcomes], r \in RandomOutcomes,
          func_kind \in FuncKinds, stats \in PriorStats :
         mode_runs' = [outcomes |-> outcomes, random |-> r, func_kind |-> func_kind,
                       before |-> stats,
                       sync |-> retry_sync_run("extract_raw_data", outcomes, r, stats),
                       async |-> retry_async_run("extract_raw_data", func_kind, outcomes, r,
                                                 stats)]
    /\ UNCHANGED <<max_retries, config, delay_result, retry_decision, retry_stats, rpc, mode, operation_name,
                   attempt, last_exception, outcome, invoked, sleeps, stats_before, calls>>
    /\ UNCHANGED notRetryVars

NextRetryModes == run_both_modes

SpecRetryModes == InitRetryModes /\ [][NextRetryModes]_vars

(***************************************************************************)
(* calculate_delay called on its own, for handlers built with any          *)
(* strategy and with delays of zero, of seconds and of minutes             *)
(***************************************************************************)
\* RetryStrategy
Strategies == {"FIXED", "LINEAR", "EXPONENTIAL", "JITTER"}

\* the configurations handlers are built with in the model
Configs ==
    [base_delay : {0, 1000, 2000}, max_delay : {0, 1500, 300000}, strategy : Strategies,
     backoff_factor : {1, 2}, jitter : BOOLEAN]

\* the attempt numbers calculate_delay is called with: the first ones, and
\* the ones around the largest power a float holds
Attempts == (1..MaxAttempt) \cup {FloatMaxExp, FloatMaxExp + 1}

InitDelay ==
    /\ max_retries = 3
    /\ config \in Configs
    /\ RetryConstructed
    /\ BreakerConstructed
    /\ failure_threshold = 1
    /\ recovery_timeout = 1
    /\ expected_exception = {"Exception"}
    /\ AlertDefaults
    /\ MonitorConstructed
    /\ NoCaller
    /\ NoLimiter
    /\ NoWorkers

\* self.calculate_delay(att) with random.random() giving r; before is the
\* call made on the same handler just before this one
delay_call(att, r) ==
    /\ delay_result' = [attempt |-> att, random |-> r,
                        result |-> calculate_delay(config, att, r),
                        before |-> IF delay_result = NoDelay THEN NoDelay
                                   ELSE [attempt |-> delay_result.attempt,
                                         result |-> delay_result.result]]
    /\ UNCHANGED <<max_retries, config, retry_decision, mode_runs, retry_stats, rpc, mode,
                   operation_name, attempt, last_exception, outcome, invoked, sleeps,
                   stats_before, calls>>
    /\ UNCHANGED notRetryVars

calculate_delay_called == \E att \in Attempts, r \in RandomOutcomes : delay_call(att, r)

NextDelay == calculate_delay_called

SpecDelay == InitDelay /\ [][NextDelay]_vars

(***************************************************************************)
(* should_retry on its own: a handler with any retry budget classifies any *)
(* error at any attempt number.                                            *)
(***************************************************************************)
\* the error kinds should_retry is called with: every class its two tuples
\* name, an unknown class, the base class, and io.UnsupportedOperation, which
\* derives from OSError and from ValueError
ClassifiedKinds ==
    retryable_exceptions \cup non_retryable_exceptions
        \cup {"RuntimeError", "Exception", "UnsupportedOperation"}

InitShouldRetry ==
    /\ max_retries \in 0..MaxRetriesBound
    /\ config = DeterministicConfig
    /\ RetryConstructed
    /\ BreakerConstructed
    /\ failure_threshold = 1
    /\ recovery_timeout = 1
    /\ expected_exception = {"Exception"}
    /\ AlertDefaults
    /\ MonitorConstructed
    /\ NoCaller
    /\ NoLimiter
    /\ NoWorkers

\* self.should_retry(exception, att) for an exception of class k
should_retry_call(k, att) ==
    /\ retry_decision' = [kind |-> k, attempt |-> att,
                          result |-> should_retry([kind |-> k, origin |-> att], att)]
    /\ UNCHANGED <<max_retries, config, delay_result, mode_runs, retry_stats, rpc, mode,
                   operation_name, attempt, last_exception, outcome, invoked, sleeps,
                   stats_before, calls>>
    /\ UNCHANGED notRetryVars

should_retry_called == \E k \in ClassifiedKinds, att \in 1..MaxAttempt : should_retry_call(k, att)

NextShouldRetry == should_retry_called

SpecShouldRetry == InitShouldRetry /\ [][NextShouldRetry]_vars

(***************************************************************************)
(* CircuitBreaker                                                          *)
(***************************************************************************)
\* the error classes the wrapped function raises in the model
BreakerErrorKinds == {"TimeoutError", "ValueError", "KeyboardInterrupt"}

\* the expected_exception tuples the model constructs breakers with:
\* the default (Exception,) and a narrower (OSError,)
ExpectedChoices == {{"Exception"}, {"OSError"}}

InitBreaker ==
    /\ failure_threshold \in 1..MaxThreshold
    /\ recovery_timeout \in 1..MaxRecoveryTimeout
    /\ expected_exception \in ExpectedChoices
    /\ BreakerConstructed
    /\ max_retries = 3
    /\ config = DeterministicConfig
    /\ RetryConstructed
    /\ AlertDefaults
    /\ MonitorConstructed
    /\ NoCaller
    /\ NoLimiter
    /\ NoWorkers

\* mutant: the recovery test admits the call when exactly recovery_timeout has elapsed
RecoveryElapsed_inclusive(t) == t - last_failure_time >= recovery_timeout

\* wrapper: time.time() - self.last_failure_time > self.recovery_timeout
RecoveryElapsed(t) == t - last_failure_time > recovery_timeout

\* mutant: the breaker opens only above the threshold
ThresholdReached_strict(count) == count > failure_threshold

\* _on_failure: self.failure_count >= self.failure_threshold
ThresholdReached(count) == count >= failure_threshold

\* mutant: the consecutive-failure count starts again at 0 when the breaker
\* moves to HALF_OPEN
wrapper_checks_resets ==
    /\ bpc = "idle"
    /\ LET entry == [NoCall EXCEPT !.entry_state = state, !.entry_now = now,
                                   !.entry_last_failure = last_failure_time,
                                   !.entry_count = failure_count,
                                   !.streak = bcall.streak, !.exit_now = now]
       IN IF state = "OPEN"
          THEN IF RecoveryElapsed(now)
               THEN /\ state' = "HALF_OPEN"
                    /\ failure_count' = 0
                    /\ bpc' = "invoking"
                    /\ bcall' = [entry EXCEPT !.half_open = TRUE, !.invoked = TRUE]
               ELSE /\ bpc' = "idle"
                    /\ bcall' = [entry EXCEPT !.result = "rejected", !.kind = "Exception"]
                    /\ UNCHANGED <<state, failure_count>>
          ELSE /\ bpc' = "invoking"
               /\ bcall' = [entry EXCEPT !.half_open = (state = "HALF_OPEN"), !.invoked = TRUE]
               /\ UNCHANGED <<state, failure_count>>
    /\ UNCHANGED <<failure_threshold, recovery_timeout, expected_exception, last_failure_time,
                   now>>

\* mutant: a rejected call stamps last_failure_time like a failure
wrapper_checks_restamps ==
    /\ bpc = "idle"
    /\ LET entry == [NoCall EXCEPT !.entry_state = state, !.entry_now = now,
                                   !.entry_last_failure = last_failure_time,
                                   !.entry_count = failure_count,
                                   !.streak = bcall.streak, !.exit_now = now]
       IN IF state = "OPEN"
          THEN IF RecoveryElapsed(now)
               THEN /\ state' = "HALF_OPEN"
                    /\ bpc' = "invoking"
                    /\ bcall' = [entry EXCEPT !.half_open = TRUE, !.invoked = TRUE]
                    /\ UNCHANGED last_failure_time
               ELSE /\ bpc' = "idle"
                    /\ bcall' = [entry EXCEPT !.result = "rejected", !.kind = "Exception"]
                    /\ last_failure_time' = now
                    /\ UNCHANGED state
          ELSE /\ bpc' = "invoking"
               /\ bcall' = [entry EXCEPT !.half_open = (state = "HALF_OPEN"), !.invoked = TRUE]
               /\ UNCHANGED <<state, last_failure_time>>
    /\ UNCHANGED <<failure_threshold, recovery_timeout, expected_exception, failure_count, now>>

\* wrapper, up to the invocation of func, on the breaker's own fields: the
\* OPEN check
wrapper_checks ==
    /\ bpc = "idle"
    /\ LET entry == [NoCall EXCEPT !.entry_state = state, !.entry_now = now,
                                   !.entry_last_failure = last_failure_time,
                                   !.entry_count = failure_count,
                                   !.streak = bcall.streak, !.exit_now = now]
       IN IF state = "OPEN"
          THEN IF RecoveryElapsed(now)
               THEN /\ state' = "HALF_OPEN"
                    /\ bpc' = "invoking"
                    /\ bcall' = [entry EXCEPT !.half_open = TRUE, !.invoked = TRUE]
               ELSE \* raise Exception("Circuit breaker is OPEN")
                    /\ bpc' = "idle"
                    /\ bcall' = [entry EXCEPT !.result = "rejected", !.kind = "Exception"]
                    /\ UNCHANGED state
          ELSE /\ bpc' = "invoking"
               /\ bcall' = [entry EXCEPT !.half_open = (state = "HALF_OPEN"), !.invoked = TRUE]
               /\ UNCHANGED state
    /\ UNCHANGED <<failure_threshold, recovery_timeout, expected_exception, failure_count,
                   last_failure_time, now>>

\* the wrapper is called by a caller that keeps no state of its own
breaker_call ==
    /\ wrapper_checks
    /\ UNCHANGED notBreakerVars

\* wrapper, on the breaker's own fields: func returned; CircuitBreaker._on_success
wrapper_succeeds ==
    /\ bpc = "invoking"
    /\ failure_count' = 0
    /\ state' = IF state = "HALF_OPEN" THEN "CLOSED" ELSE state
    /\ bpc' = "idle"
    /\ bcall' = [bcall EXCEPT !.result = "value", !.kind = "ok", !.streak = 0, !.exit_now = now]
    /\ UNCHANGED <<failure_threshold, recovery_timeout, expected_exception, last_failure_time, now>>

\* wrapper: func returned
breaker_on_success ==
    /\ wrapper_succeeds
    /\ UNCHANGED notBreakerVars

\* mutant: every error of the operation is counted as a failure
wrapper_fails_counts_all(k) ==
    /\ bpc = "invoking"
    /\ bpc' = "idle"
    /\ failure_count' = failure_count + 1
    /\ last_failure_time' = now
    /\ state' = IF ThresholdReached(failure_count + 1) THEN "OPEN" ELSE state
    /\ bcall' = [bcall EXCEPT !.result = "error", !.kind = k,
                              !.streak = @ + 1, !.exit_now = now]
    /\ UNCHANGED <<failure_threshold, recovery_timeout, expected_exception, now>>

\* wrapper, on the breaker's own fields: func raised an exception of class k
wrapper_fails(k) ==
    /\ bpc = "invoking"
    /\ bpc' = "idle"
    /\ IF IsInstance(k, expected_exception)
       THEN \* CircuitBreaker._on_failure, then raise e
            /\ failure_count' = failure_count + 1
            /\ last_failure_time' = now
            /\ state' = IF ThresholdReached(failure_count + 1) THEN "OPEN" ELSE state
            /\ bcall' = [bcall EXCEPT !.result = "error", !.kind = k,
                                      !.streak = @ + 1, !.exit_now = now]
       ELSE \* not caught by "except self.expected_exception"
            /\ bcall' = [bcall EXCEPT !.result = "error", !.kind = k,
                                      !.streak = 0, !.exit_now = now]
            /\ UNCHANGED <<failure_count, last_failure_time, state>>
    /\ UNCHANGED <<failure_threshold, recovery_timeout, expected_exception, now>>

\* wrapper: func raised an exception of class k
breaker_func_raises(k) ==
    /\ wrapper_fails(k)
    /\ UNCHANGED notBreakerVars

breaker_on_failure == \E k \in BreakerErrorKinds : breaker_func_raises(k)

\* the clock read by time.time() advances
Tick ==
    /\ now < MaxTime
    /\ now' = now + 1
    /\ UNCHANGED <<failure_threshold, recovery_timeout, expected_exception, failure_count,
                   last_failure_time, state, bpc, bcall>>
    /\ UNCHANGED notBreakerVars

NextBreaker ==
    \/ breaker_call
    \/ breaker_on_success
    \/ breaker_on_failure
    \/ Tick

SpecBreaker == InitBreaker /\ [][NextBreaker]_vars

(***************************************************************************)
(* RetryHandler around a breaker-wrapped operation:                        *)
(* retry_handler.retry_sync(circuit_breaker(func)).  The func the handler  *)
(* invokes is the breaker's wrapper: each attempt runs the OPEN check and  *)
(* either is rejected or invokes the operation.                            *)
(***************************************************************************)
InitRetryBreaker ==
    /\ max_retries \in 1..MaxRetriesBound
    /\ config = DeterministicConfig
    /\ RetryConstructed
    /\ failure_threshold \in 1..MaxThreshold
    /\ recovery_timeout = 1
    /\ expected_exception = {"Exception"}
    /\ BreakerConstructed
    /\ AlertDefaults
    /\ MonitorConstructed
    /\ NoCaller
    /\ NoLimiter
    /\ NoWorkers

\* what the retried wrapper leaves alone
retryBreakerFrame == UNCHANGED <<alertVars, monitorVars, workerVars, callerVars, limiterVars>>

\* the wrapper finds the breaker OPEN before the recovery timeout
Rejects == state = "OPEN" /\ ~RecoveryElapsed(now)

\* the handler invokes the wrapper: the OPEN check; a rejection is the
\* Exception the attempt ends with
wrapped_call ==
    /\ rpc = "running"
    /\ wrapper_checks
    /\ IF Rejects THEN retry_handles("Exception") ELSE UNCHANGED retryVars
    /\ retryBreakerFrame

\* the operation returns: _on_success, then the handler's success path
wrapped_returns ==
    /\ rpc = "running"
    /\ wrapper_succeeds
    /\ retry_handles("ok")
    /\ retryBreakerFrame

\* the operation raises: _on_failure if expected, then the handler's except path
wrapped_raises ==
    /\ rpc = "running"
    /\ \E k \in BreakerErrorKinds : wrapper_fails(k) /\ retry_handles(k)
    /\ retryBreakerFrame

\* the caller starts a retried call while no wrapper call is under way
retry_wrapped == bpc = "idle" /\ retry_enter("sync", "extract_raw_data")

NextRetryBreaker ==
    \/ retry_wrapped
    \/ wrapped_call
    \/ wrapped_returns
    \/ wrapped_raises
    \/ retry_wake
    \/ Tick

SpecRetryBreaker == InitRetryBreaker /\ [][NextRetryBreaker]_vars

(***************************************************************************)
(* AlertManager                                                            *)
(***************************************************************************)
\* the webhook_urls lists the model constructs AlertManagers with
WebhookChoices ==
    {<< >>, <<"https://hooks.slack.com/services/T">>,
     <<"https://hooks.slack.com/services/T", "https://example.org/hook">>}

\* the snapshots the callers pass in the model
\*   SnapshotSpec:    failure rate 0.15 and nothing to name the DAG
\*   SnapshotMonitor: what PipelineMonitor.collect_and_process_metrics builds
\*   SnapshotDag:     what the monitoring DAG's process_alerts builds
\*   SnapshotQuiet:   nothing out of range
SnapshotSpec == [k \in {"failure_rate", "memory_usage_percent"} |->
                    IF k = "failure_rate" THEN 15 ELSE 50]

SnapshotMonitor == [k \in {"memory_usage_percent", "cpu_usage_percent", "worker_id", "timestamp"} |->
                       IF k = "memory_usage_percent" THEN 95 ELSE 1]

SnapshotDag == [k \in {"failure_rate", "memory_usage_percent", "dag_id", "sla_violations",
                       "alert_recipients"} |->
                   CASE k = "failure_rate" -> 15
                     [] k = "memory_usage_percent" -> 50
                     [] k = "sla_violations" -> 2
                     [] OTHER -> 1]

SnapshotQuiet == [k \in {"memory_usage_percent", "worker_id", "dag_id"} |->
                     IF k = "memory_usage_percent" THEN 50 ELSE 1]

\*   SnapshotMixed:   two rules fire, only one template can be formatted
SnapshotMixed == [k \in {"failure_rate", "memory_usage_percent", "worker_id"} |->
                     CASE k = "failure_rate" -> 15
                       [] k = "memory_usage_percent" -> 95
                       [] OTHER -> 1]

Snapshots == {SnapshotSpec, SnapshotMonitor, SnapshotDag, SnapshotQuiet, SnapshotMixed}

\* the minutes that pass between two readings of the clock
WallSteps == {5, 6}

InitAlert ==
    /\ smtp_configured \in BOOLEAN
    /\ webhook_urls \in WebhookChoices
    /\ AlertConstructed
    /\ max_retries = 3
    /\ config = DeterministicConfig
    /\ RetryConstructed
    /\ failure_threshold = 1
    /\ recovery_timeout = 1
    /\ expected_exception = {"Exception"}
    /\ BreakerConstructed
    /\ MonitorConstructed
    /\ NoCaller
    /\ NoLimiter
    /\ NoWorkers

\* mutant: the default conditions fire at the threshold too
ConditionHolds_inclusive(rule, m) ==
    LET v == IF rule.condition.key \in DOMAIN m THEN m[rule.condition.key]
             ELSE rule.condition.default
    IN IF rule.condition.op = ">" THEN v >= rule.condition.threshold
       ELSE v <= rule.condition.threshold

\* rule.condition(metrics) when it raises nothing: the value read, compared
\* with the threshold
ConditionHolds(rule, m) ==
    LET v == IF rule.condition.key \in DOMAIN m THEN m[rule.condition.key]
             ELSE rule.condition.default
    IN IF rule.condition.op = ">" THEN v > rule.condition.threshold
       ELSE v < rule.condition.threshold

\* rule.condition(metrics) raises: metrics[key] with the key missing is a KeyError
ConditionRaises(rule, m) == ~rule.condition.get /\ rule.condition.key \notin DOMAIN m

\* mutant: a rule is still in cooldown when exactly cooldown_minutes have passed
InCooldown_inclusive(rule, t) ==
    rule.last_triggered # NoTime /\ t - rule.last_triggered <= rule.cooldown_minutes

\* check_alert_conditions: the cooldown test
InCooldown(rule, t) ==
    rule.last_triggered # NoTime /\ t - rule.last_triggered < rule.cooldown_minutes

\* mutant: a condition that raises is taken as true
Triggers_on_error(rule, m, t) ==
    rule.enabled /\ ~InCooldown(rule, t) /\ (ConditionRaises(rule, m) \/ ConditionHolds(rule, m))

\* check_alert_conditions: whether the rule is appended to triggered_alerts;
\* an exception raised by the condition is caught and logged
Triggers(rule, m, t) ==
    rule.enabled /\ ~InCooldown(rule, t) /\ ~ConditionRaises(rule, m) /\ ConditionHolds(rule, m)

\* check_alert_conditions: the indices, in list order, of the rules among
\* rules[i..] that are appended to triggered_alerts
RECURSIVE TriggeredFrom(_, _, _, _)
TriggeredFrom(rules, m, t, i) ==
    IF i > Len(rules) THEN << >>
    ELSE (IF Triggers(rules[i], m, t) THEN <<i>> ELSE << >>) \o TriggeredFrom(rules, m, t, i + 1)

\* mutant: firing does not stamp last_triggered
check_alert_conditions_unstamped(rules, m, t) == <<TriggeredFrom(rules, m, t, 1), rules>>

\* AlertManager.check_alert_conditions(metrics): <<triggered_alerts, alert_rules>>
check_alert_conditions(rules, m, t) ==
    <<TriggeredFrom(rules, m, t, 1),
      [i \in 1..Len(rules) |->
          IF Triggers(rules[i], m, t) THEN [rules[i] EXCEPT !.last_triggered = t] ELSE rules[i]]>>

\* process_metrics_and_alerts: the coroutines created for the triggered alerts
RECURSIVE AlertTasks(_)
AlertTasks(alerts) ==
    IF alerts = << >> THEN << >>
    ELSE <<[send |-> "email", rule |-> Head(alerts)],
           [send |-> "webhook", rule |-> Head(alerts)]>> \o AlertTasks(Tail(alerts))

\* alert_rule.message_template.format(**metrics) raises no KeyError
Formats(rule, m) == rule.message_template \subseteq DOMAIN m

\* the history entries appended for the triggered alerts
RECURSIVE HistoryEntries(_, _, _, _)
HistoryEntries(alerts, rules, m, t) ==
    IF alerts = << >> THEN << >>
    ELSE <<[alert_name |-> rules[Head(alerts)].name,
            severity |-> rules[Head(alerts)].severity,
            timestamp |-> t,
            metrics |-> m]>> \o HistoryEntries(Tail(alerts), rules, m, t)

\* mutant: one history entry for the whole call
store_history_once(history, alerts, rules, m, t) ==
    IF alerts = << >> THEN history
    ELSE history \o HistoryEntries(<<Head(alerts)>>, rules, m, t)

\* process_metrics_and_alerts: "Store alert history"
store_history(history, alerts, rules, m, t) ==
    history \o HistoryEntries(alerts, rules, m, t)

\* mutant: asyncio.gather raises the first exception of a coroutine
return_exceptions_off == FALSE

\* asyncio.gather(*alert_tasks, return_exceptions=True)
return_exceptions == TRUE

\* process_metrics_and_alerts(metrics) up to asyncio.gather; with nothing
\* triggered the call returns here
process_metrics_and_alerts ==
    /\ apc \in {"idle", "raised"}
    /\ cycles < MaxCycles
    /\ \E m \in Snapshots :
         LET checked == check_alert_conditions(alert_rules, m, wall)
         IN /\ metrics' = m
            /\ triggered_alerts' = checked[1]
            /\ alert_rules' = checked[2]
            /\ alert_tasks' = AlertTasks(checked[1])
            /\ apc' = IF checked[1] = << >> THEN "idle" ELSE "gathering"
    /\ cycles' = cycles + 1
    /\ sent' = {}
    /\ history_before' = Len(alert_history)
    /\ UNCHANGED <<smtp_configured, webhook_urls, alert_history, wall>>
    /\ UNCHANGED notAlertVars

\* the first coroutine not yet run is send_email_alert: it runs to its end
send_email_alert ==
    /\ apc = "gathering"
    /\ alert_tasks # << >>
    /\ Head(alert_tasks).send = "email"
    /\ alert_tasks' = Tail(alert_tasks)
    /\ LET i == Head(alert_tasks).rule IN
       IF ~smtp_configured
       THEN UNCHANGED sent
       ELSE IF ~Formats(alert_rules[i], metrics)
            THEN \* KeyError inside the try block: logged
                 UNCHANGED sent
            ELSE \E ok \in BOOLEAN :
                     sent' = sent \cup {[rule |-> i, channel |-> 0, ok |-> ok]}
    /\ UNCHANGED <<smtp_configured, webhook_urls, alert_rules, alert_history, wall, apc, metrics,
                   triggered_alerts, history_before, cycles>>
    /\ UNCHANGED notAlertVars

\* the first coroutine not yet run is send_webhook_alert: it runs to its end
send_webhook_alert ==
    /\ apc = "gathering"
    /\ alert_tasks # << >>
    /\ Head(alert_tasks).send = "webhook"
    /\ alert_tasks' = Tail(alert_tasks)
    /\ LET i == Head(alert_tasks).rule IN
       IF webhook_urls = << >>
       THEN UNCHANGED <<sent, apc>>
       ELSE IF ~Formats(alert_rules[i], metrics)
            THEN \* KeyError before the loop: the coroutine ends with it; gather
                 \* keeps it as a result, or raises it to the caller
                 /\ UNCHANGED sent
                 /\ apc' = IF return_exceptions THEN apc ELSE "raised"
            ELSE /\ \E oks \in [1..Len(webhook_urls) -> BOOLEAN] :
                        sent' = sent \cup {[rule |-> i, channel |-> u, ok |-> oks[u]] :
                                             u \in 1..Len(webhook_urls)}
                 /\ UNCHANGED apc
    /\ UNCHANGED <<smtp_configured, webhook_urls, alert_rules, alert_history, wall, metrics,
                   triggered_alerts, history_before, cycles>>
    /\ UNCHANGED notAlertVars

\* asyncio.gather has returned: the history is stored and the call returns
process_return ==
    /\ apc = "gathering"
    /\ alert_tasks = << >>
    /\ alert_history' = store_history(alert_history, triggered_alerts, alert_rules, metrics, wall)
    /\ apc' = "idle"
    /\ UNCHANGED <<smtp_configured, webhook_urls, alert_rules, wall, metrics, triggered_alerts,
                   alert_tasks, sent, history_before, cycles>>
    /\ UNCHANGED notAlertVars

\* the clock read by datetime.now() advances
Advance ==
    /\ \E d \in WallSteps : wall + d <= MaxWall /\ wall' = wall + d
    /\ UNCHANGED <<smtp_configured, webhook_urls, alert_rules, alert_history, apc, metrics,
                   triggered_alerts, alert_tasks, sent, history_before, cycles>>
    /\ UNCHANGED notAlertVars

NextAlert ==
    \/ process_metrics_and_alerts
    \/ send_email_alert
    \/ send_webhook_alert
    \/ process_return
    \/ Advance

SpecAlert == InitAlert /\ [][NextAlert]_vars

(***************************************************************************)
(* Alert Rule Engine: add_alert_rule and check_alert_conditions called     *)
(* on their own                                                            *)
(***************************************************************************)
\* rules registered at runtime in the model
\*   NoRows:             its condition subscripts the snapshot, metrics['row_count'] < 1
\*   FailureRateAgain:   registered under the name of a default rule
NoRows ==
    [name |-> "no_rows",
     condition |-> [get |-> FALSE, key |-> "row_count", default |-> 0, op |-> "<", threshold |-> 1],
     severity |-> "warning", message_template |-> {"row_count"},
     cooldown_minutes |-> 5, enabled |-> TRUE, last_triggered |-> NoTime]

FailureRateAgain ==
    [name |-> "high_failure_rate",
     condition |-> [get |-> TRUE, key |-> "failure_rate", default |-> 0, op |-> ">", threshold |-> 5],
     severity |-> "warning", message_template |-> {"failure_rate"},
     cooldown_minutes |-> 5, enabled |-> TRUE, last_triggered |-> NoTime]

CustomRules == {NoRows, FailureRateAgain}

\* the snapshots evaluated in the model, besides SnapshotSpec
\*   SnapshotAtThresholds: every default metric exactly at its threshold
\*   SnapshotBeyond:       every default metric just beyond its threshold
\*   SnapshotLong:         a task that ran 3601 s, under the key task_duration
\*   SnapshotLongSeconds:  the same under the key task_duration_seconds
\*   SnapshotRows:         none of the default metrics, and row_count 0
SnapshotAtThresholds ==
    [k \in {"failure_rate", "task_duration", "task_duration_seconds", "data_quality_score",
            "memory_usage_percent", "sla_violations"} |->
        CASE k = "failure_rate" -> 10
          [] k = "task_duration" -> 3600
          [] k = "task_duration_seconds" -> 3600
          [] k = "data_quality_score" -> 80
          [] k = "memory_usage_percent" -> 90
          [] OTHER -> 0]

SnapshotBeyond ==
    [k \in {"failure_rate", "task_duration", "data_quality_score",
            "memory_usage_percent", "sla_violations"} |->
        CASE k = "failure_rate" -> 11
          [] k = "task_duration" -> 3601
          [] k = "data_quality_score" -> 79
          [] k = "memory_usage_percent" -> 91
          [] OTHER -> 1]

SnapshotLong == [k \in {"task_duration", "task_id", "dag_id"} |->
                    IF k = "task_duration" THEN 3601 ELSE 1]

SnapshotLongSeconds == [k \in {"task_duration_seconds", "task_id", "dag_id"} |->
                           IF k = "task_duration_seconds" THEN 3601 ELSE 1]

SnapshotRows == [k \in {"row_count"} |-> 0]

EngineSnapshots == {SnapshotSpec, SnapshotAtThresholds, SnapshotBeyond, SnapshotLong,
                    SnapshotLongSeconds, SnapshotRows}

InitEngine ==
    /\ AlertDefaults
    /\ max_retries = 3
    /\ config = DeterministicConfig
    /\ RetryConstructed
    /\ failure_threshold = 1
    /\ recovery_timeout = 1
    /\ expected_exception = {"Exception"}
    /\ BreakerConstructed
    /\ MonitorConstructed
    /\ NoCaller
    /\ NoLimiter
    /\ NoWorkers

\* a caller registers a rule: AlertManager.add_alert_rule(alert_rule)
register_rule ==
    /\ apc = "idle"
    /\ Len(alert_rules) < Len(setup_default_alert_rules(<< >>)) + MaxCustomRules
    /\ \E r \in CustomRules : alert_rules' = add_alert_rule(alert_rules, r)
    /\ UNCHANGED <<smtp_configured, webhook_urls, alert_history, wall, apc, metrics,
                   triggered_alerts, alert_tasks, sent, history_before, cycles>>
    /\ UNCHANGED notAlertVars

\* a caller evaluates a snapshot: AlertManager.check_alert_conditions(metrics)
evaluate_rules ==
    /\ apc = "idle"
    /\ cycles < MaxCycles
    /\ \E m \in EngineSnapshots :
         LET checked == check_alert_conditions(alert_rules, m, wall)
         IN /\ metrics' = m
            /\ triggered_alerts' = checked[1]
            /\ alert_rules' = checked[2]
    /\ cycles' = cycles + 1
    /\ UNCHANGED <<smtp_configured, webhook_urls, alert_history, wall, apc, alert_tasks, sent,
                   history_before>>
    /\ UNCHANGED notAlertVars

NextEngine ==
    \/ register_rule
    \/ evaluate_rules
    \/ Advance

SpecEngine == InitEngine /\ [][NextEngine]_vars

(***************************************************************************)
(* PipelineMonitor: one lifecycle thread calls start_monitoring and        *)
(* stop_monitoring, each started thread runs monitoring_loop.  The         *)
(* AlertManager has no SMTP settings and no webhook, so the coroutines of  *)
(* a dispatch return at once and a cycle is one step.                      *)
(***************************************************************************)
\* the interval_seconds the lifecycle thread passes (60 is the default)
Intervals == {30, 60}

\* what psutil raises when the collection fails
CollectErrorKinds == {"OSError", "RuntimeError"}

\* the snapshots collect_and_process_metrics builds: memory at 95 % or at 50 %
SnapshotMonitorCalm == [SnapshotMonitor EXCEPT !["memory_usage_percent"] = 50]

MonitorSnapshots == {SnapshotMonitor, SnapshotMonitorCalm}

InitMonitor ==
    /\ MonitorConstructed
    /\ NoCaller
    /\ NoLimiter
    /\ NoWorkers
    /\ AlertDefaults
    /\ max_retries = 3
    /\ config = DeterministicConfig
    /\ RetryConstructed
    /\ failure_threshold = 1
    /\ recovery_timeout = 1
    /\ expected_exception = {"Exception"}
    /\ BreakerConstructed

\* mutant: start_monitoring does not look at monitoring_active
AlreadyActive_never == FALSE

\* start_monitoring: "if self.monitoring_active"
AlreadyActive == monitoring_active

\* mutant: stop_monitoring does not join
ShouldJoin_never == FALSE

\* stop_monitoring: "if self.monitoring_thread"
ShouldJoin == monitoring_thread # NoThread

\* mutant: the cycle catches I/O errors only
CycleCaught_narrow(kind) == IsInstance(kind, {"OSError"})

\* collect_and_process_metrics and monitoring_loop: "except Exception"
CycleCaught(kind) == IsInstance(kind, {"Exception"})

\* PipelineMonitor.start_monitoring(interval_seconds)
start_monitoring_call(interval_seconds) ==
    /\ lpc = "idle"
    /\ mcalls < MaxLifecycleCalls
    /\ mcalls' = mcalls + 1
    /\ IF AlreadyActive
       THEN \* "Monitoring is already active": return
            /\ mlast' = [op |-> "start", was_active |-> monitoring_active,
                         launched |-> FALSE, joined |-> NoThread]
            /\ UNCHANGED <<monitoring_active, monitoring_thread, loops>>
       ELSE /\ monitoring_active' = TRUE
            /\ loops' = Append(loops, [pc |-> "test", interval |-> interval_seconds,
                                       last |-> "none"])
            /\ monitoring_thread' = Len(loops) + 1
            /\ mlast' = [op |-> "start", was_active |-> monitoring_active,
                         launched |-> TRUE, joined |-> NoThread]
    /\ UNCHANGED lpc
    /\ UNCHANGED alertVars
    /\ UNCHANGED notMonitorVars

start_monitoring == \E interval_seconds \in Intervals : start_monitoring_call(interval_seconds)

\* PipelineMonitor.stop_monitoring up to the join
stop_monitoring ==
    /\ lpc = "idle"
    /\ mcalls < MaxLifecycleCalls
    /\ mcalls' = mcalls + 1
    /\ monitoring_active' = FALSE
    /\ lpc' = IF ShouldJoin THEN "joining" ELSE "idle"
    /\ mlast' = [op |-> "stop", was_active |-> monitoring_active, launched |-> FALSE,
                 joined |-> IF ShouldJoin THEN monitoring_thread ELSE NoThread]
    /\ UNCHANGED <<monitoring_thread, loops>>
    /\ UNCHANGED alertVars
    /\ UNCHANGED notMonitorVars

\* self.monitoring_thread.join() returns: the thread has ended
join_returns ==
    /\ lpc = "joining"
    /\ loops[monitoring_thread].pc = "exited"
    /\ lpc' = "idle"
    /\ UNCHANGED <<monitoring_active, monitoring_thread, loops, mlast, mcalls>>
    /\ UNCHANGED alertVars
    /\ UNCHANGED notMonitorVars

\* monitoring_loop of thread i: "while self.monitoring_active"
loop_test(i) ==
    /\ i \in 1..Len(loops)
    /\ loops[i].pc = "test"
    /\ loops' = [loops EXCEPT ![i].pc = IF monitoring_active THEN "cycle" ELSE "exited"]
    /\ UNCHANGED <<monitoring_active, monitoring_thread, lpc, mlast, mcalls>>
    /\ UNCHANGED alertVars
    /\ UNCHANGED notMonitorVars

\* collect_and_process_metrics of thread i: the snapshot m is collected and
\* handed to process_metrics_and_alerts
cycle_processes(i, m) ==
    /\ i \in 1..Len(loops)
    /\ loops[i].pc = "cycle"
    /\ apc = "idle"
    /\ LET checked == check_alert_conditions(alert_rules, m, wall)
       IN /\ metrics' = m
          /\ triggered_alerts' = checked[1]
          /\ alert_rules' = checked[2]
          /\ alert_history' = store_history(alert_history, checked[1], checked[2], m, wall)
    /\ sent' = {}
    /\ history_before' = Len(alert_history)
    /\ loops' = [loops EXCEPT ![i].pc = "sleep", ![i].last = "ok"]
    /\ UNCHANGED <<smtp_configured, webhook_urls, wall, apc, alert_tasks, cycles>>
    /\ UNCHANGED <<monitoring_active, monitoring_thread, lpc, mlast, mcalls>>
    /\ UNCHANGED notMonitorVars

\* collect_and_process_metrics of thread i: the collection raises an error
\* of class kind; caught, it is logged and the loop goes to its sleep
cycle_raises(i, kind) ==
    /\ i \in 1..Len(loops)
    /\ loops[i].pc = "cycle"
    /\ loops' = [loops EXCEPT ![i].pc = IF CycleCaught(kind) THEN "sleep" ELSE "exited",
                              ![i].last = "error"]
    /\ UNCHANGED <<monitoring_active, monitoring_thread, lpc, mlast, mcalls>>
    /\ UNCHANGED alertVars
    /\ UNCHANGED notMonitorVars

\* time.sleep(interval_seconds) of thread i returns
loop_wake(i) ==
    /\ i \in 1..Len(loops)
    /\ loops[i].pc = "sleep"
    /\ loops' = [loops EXCEPT ![i].pc = "test"]
    /\ UNCHANGED <<monitoring_active, monitoring_thread, lpc, mlast, mcalls>>
    /\ UNCHANGED alertVars
    /\ UNCHANGED notMonitorVars

\* one step of thread i
loop_step(i) ==
    \/ loop_test(i)
    \/ \E m \in MonitorSnapshots : cycle_processes(i, m)
    \/ \E kind \in CollectErrorKinds : cycle_raises(i, kind)
    \/ loop_wake(i)

monitoring_loop == \E i \in 1..Len(loops) : loop_test(i)

collect_and_process_metrics == \E i \in 1..Len(loops), m \in MonitorSnapshots : cycle_processes(i, m)

collect_fails == \E i \in 1..Len(loops), kind \in CollectErrorKinds : cycle_raises(i, kind)

sleep_returns == \E i \in 1..Len(loops) : loop_wake(i)

NextMonitor ==
    \/ start_monitoring
    \/ stop_monitoring
    \/ join_returns
    \/ monitoring_loop
    \/ collect_and_process_metrics
    \/ collect_fails
    \/ sleep_returns

SpecMonitor == InitMonitor /\ [][NextMonitor]_vars

\* the scheduler runs every started thread again and again, a cycle and a
\* sleep come to an end, and join returns once the thread has ended
FairMonitor ==
    /\ \A i \in 1..MaxLifecycleCalls : WF_vars(loop_step(i))
    /\ WF_vars(join_returns)

SpecMonitorFair == SpecMonitor /\ FairMonitor

(***************************************************************************)
(* RetryHandler called by several worker threads.  Every worker makes one  *)
(* retry_sync call under the same operation_name.  _record_attempt holds   *)
(* no lock: a read-modify-write of a counter is a load and a store, and    *)
(* another thread may run between the two.                                 *)
(***************************************************************************)
Workers == 1..MaxWorkers

\* the operation name all workers pass
SharedName == "extract_raw_data"

\* what func does in a worker's attempt: it returns or raises a retryable error
WorkerResults == {"ok", "TimeoutError"}

\* a worker before its call
WorkerStart == [pc |-> "call", attempt |-> 1, res |-> "none", ref |-> 0, tmp |-> 0]

InitRetryWorkers ==
    /\ max_retries \in 1..2
    /\ config = DeterministicConfig
    /\ RetryConstructed
    /\ workers = [w \in Workers |-> WorkerStart]
    /\ stats_id = 0
    /\ tally = [invoked |-> 0, returned |-> 0, failed |-> 0, trials |-> 0]
    /\ failure_threshold = 1
    /\ recovery_timeout = 1
    /\ expected_exception = {"Exception"}
    /\ BreakerConstructed
    /\ AlertDefaults
    /\ MonitorConstructed
    /\ NoCaller
    /\ NoLimiter

\* what the steps of a worker leave alone
workerFrame ==
    /\ UNCHANGED <<max_retries, config, delay_result, retry_decision, mode_runs, rpc, mode, operation_name, attempt, last_exception, outcome,
                   invoked, sleeps, stats_before, calls>>
    /\ UNCHANGED <<breakerVars, alertVars, monitorVars, callerVars, limiterVars>>

\* the dict a worker's local "stats" refers to is the one held under the name
RefCurrent(w) == workers[w].ref = stats_id /\ SharedName \in DOMAIN retry_stats

\* stats[field] read through the worker's reference (a replaced dict is
\* one no other thread looks at: its content does not matter)
Loaded(w, field) == IF RefCurrent(w) THEN retry_stats[SharedName][field] ELSE 0

\* retry_stats after stats[field] = value through the worker's reference
Stored(w, field, value) ==
    IF RefCurrent(w) THEN [retry_stats EXCEPT ![SharedName][field] = value] ELSE retry_stats

\* retry_sync of worker w: func is invoked in the current attempt and ends as res
worker_invokes(w, res) ==
    /\ workers[w].pc = "call"
    /\ workers' = [workers EXCEPT ![w].pc = "rec_test", ![w].res = res]
    /\ tally' = [tally EXCEPT !.invoked = @ + 1,
                              !.failed = IF res = "ok" THEN @ ELSE @ + 1]
    /\ UNCHANGED <<retry_stats, stats_id>>
    /\ workerFrame

\* _record_attempt: "if operation_name not in self.retry_stats"
record_test(w) ==
    /\ workers[w].pc = "rec_test"
    /\ workers' = [workers EXCEPT ![w].pc = IF SharedName \in DOMAIN retry_stats
                                            THEN "rec_ref" ELSE "rec_create"]
    /\ UNCHANGED <<retry_stats, stats_id, tally>>
    /\ workerFrame

\* _record_attempt: self.retry_stats[operation_name] = {...}
record_create(w) ==
    /\ workers[w].pc = "rec_create"
    /\ retry_stats' = [n \in DOMAIN retry_stats \cup {SharedName} |->
                          IF n = SharedName THEN EmptyStats ELSE retry_stats[n]]
    /\ stats_id' = stats_id + 1
    /\ workers' = [workers EXCEPT ![w].pc = "rec_ref"]
    /\ UNCHANGED tally
    /\ workerFrame

\* _record_attempt: stats = self.retry_stats[operation_name]
record_ref(w) ==
    /\ workers[w].pc = "rec_ref"
    /\ workers' = [workers EXCEPT ![w].pc = "load_total", ![w].ref = stats_id]
    /\ UNCHANGED <<retry_stats, stats_id, tally>>
    /\ workerFrame

\* the counter a worker at position pc reads or writes
FieldAt(pc) ==
    CASE pc \in {"load_total", "store_total"} -> "total_attempts"
      [] pc \in {"load_success", "store_success"} -> "successful_operations"
      [] OTHER -> "failed_operations"

\* the position after the store of a counter
AfterStore(w) ==
    CASE workers[w].pc = "store_total" ->
             IF workers[w].res = "ok" THEN "load_success" ELSE "load_exception"
      [] workers[w].pc = "store_success" -> "average"
      [] OTHER -> "recorded"

\* _record_attempt: the read of stats[field] in "stats[field] += 1"
record_load(w) ==
    /\ workers[w].pc \in {"load_total", "load_success", "load_failed"}
    /\ workers' = [workers EXCEPT
                      ![w].tmp = Loaded(w, FieldAt(workers[w].pc)),
                      ![w].pc = CASE workers[w].pc = "load_total" -> "store_total"
                                  [] workers[w].pc = "load_success" -> "store_success"
                                  [] OTHER -> "store_failed"]
    /\ UNCHANGED <<retry_stats, stats_id, tally>>
    /\ workerFrame

\* _record_attempt: the write of stats[field] in "stats[field] += 1"
record_store(w) ==
    /\ workers[w].pc \in {"store_total", "store_success", "store_failed"}
    /\ retry_stats' = Stored(w, FieldAt(workers[w].pc), workers[w].tmp + 1)
    /\ workers' = [workers EXCEPT ![w].pc = AfterStore(w)]
    /\ UNCHANGED <<stats_id, tally>>
    /\ workerFrame

\* _record_attempt: the running average of the attempts to success
record_average(w) ==
    /\ workers[w].pc = "average"
    /\ retry_stats' =
          IF RefCurrent(w)
          THEN LET st == retry_stats[SharedName]
                   n == st.successful_operations
                   avg == st.average_attempts_to_success
               IN Stored(w, "average_attempts_to_success",
                         IF n = 0 THEN avg
                         ELSE Fraction(avg[1] * (n - 1) + workers[w].attempt * avg[2], avg[2] * n))
          ELSE retry_stats
    /\ workers' = [workers EXCEPT ![w].pc = "recorded"]
    /\ UNCHANGED <<stats_id, tally>>
    /\ workerFrame

\* _record_attempt: stats['exception_counts'].get(exc_type, 0)
record_load_exception(w) ==
    /\ workers[w].pc = "load_exception"
    /\ workers' = [workers EXCEPT
                      ![w].tmp = IF RefCurrent(w)
                                 THEN CountOf(retry_stats[SharedName].exception_counts,
                                              workers[w].res)
                                 ELSE 0,
                      ![w].pc = "store_exception"]
    /\ UNCHANGED <<retry_stats, stats_id, tally>>
    /\ workerFrame

\* _record_attempt: stats['exception_counts'][exc_type] = ... + 1, then the
\* "Final failure" test
record_store_exception(w) ==
    /\ workers[w].pc = "store_exception"
    /\ retry_stats' =
          IF RefCurrent(w)
          THEN LET counts == retry_stats[SharedName].exception_counts
               IN Stored(w, "exception_counts",
                         [k \in DOMAIN counts \cup {workers[w].res} |->
                             IF k = workers[w].res THEN workers[w].tmp + 1 ELSE counts[k]])
          ELSE retry_stats
    /\ workers' = [workers EXCEPT ![w].pc = IF IsFinalFailure(workers[w].attempt)
                                            THEN "load_failed" ELSE "recorded"]
    /\ UNCHANGED <<stats_id, tally>>
    /\ workerFrame

\* retry_sync of worker w after _record_attempt: return result, go on with
\* the loop, or raise last_exception
worker_continues(w) ==
    /\ workers[w].pc = "recorded"
    /\ IF workers[w].res = "ok"
       THEN /\ workers' = [workers EXCEPT ![w].pc = "returned"]
            /\ tally' = [tally EXCEPT !.returned = @ + 1]
       ELSE /\ workers' =
                  IF should_retry([kind |-> workers[w].res, origin |-> workers[w].attempt],
                                  workers[w].attempt)
                  THEN [workers EXCEPT ![w].pc = "call", ![w].attempt = @ + 1]
                  ELSE [workers EXCEPT ![w].pc = "raised"]
            /\ UNCHANGED tally
    /\ UNCHANGED <<retry_stats, stats_id>>
    /\ workerFrame

worker_func_returns == \E w \in Workers : worker_invokes(w, "ok")

worker_func_raises == \E w \in Workers : worker_invokes(w, "TimeoutError")

record_attempt_test == \E w \in Workers : record_test(w)

record_attempt_create == \E w \in Workers : record_create(w)

record_attempt_ref == \E w \in Workers : record_ref(w)

record_attempt_load == \E w \in Workers : record_load(w)

record_attempt_store == \E w \in Workers : record_store(w)

record_attempt_average == \E w \in Workers : record_average(w)

record_attempt_load_exception == \E w \in Workers : record_load_exception(w)

record_attempt_store_exception == \E w \in Workers : record_store_exception(w)

worker_goes_on == \E w \in Workers : worker_continues(w)

NextRetryWorkers ==
    \/ worker_func_returns
    \/ worker_func_raises
    \/ record_attempt_test
    \/ record_attempt_create
    \/ record_attempt_ref
    \/ record_attempt_load
    \/ record_attempt_store
    \/ record_attempt_average
    \/ record_attempt_load_exception
    \/ record_attempt_store_exception
    \/ worker_goes_on

SpecRetryWorkers == InitRetryWorkers /\ [][NextRetryWorkers]_vars

(***************************************************************************)
(* CircuitBreaker called by several worker threads through one wrapper.    *)
(* The wrapper, _on_success and _on_failure hold no lock; func raises      *)
(* expected errors only.                                                   *)
(***************************************************************************)
\* a worker between two calls of the wrapper
BreakerWorkerStart == [pc |-> "idle", calls |-> 0, tmp |-> 0]

InitBreakerWorkers ==
    /\ failure_threshold \in 1..MaxThreshold
    /\ recovery_timeout = 1
    /\ expected_exception = {"Exception"}
    /\ BreakerConstructed
    /\ workers = [w \in Workers |-> BreakerWorkerStart]
    /\ stats_id = 0
    /\ tally = [invoked |-> 0, returned |-> 0, failed |-> 0, trials |-> 0]
    /\ max_retries = 3
    /\ config = DeterministicConfig
    /\ RetryConstructed
    /\ AlertDefaults
    /\ MonitorConstructed
    /\ NoCaller
    /\ NoLimiter

\* what the steps of a worker in the wrapper leave alone
breakerWorkerFrame ==
    /\ UNCHANGED <<failure_threshold, recovery_timeout, expected_exception, now, bpc, bcall,
                   stats_id>>
    /\ UNCHANGED <<retryVars, alertVars, monitorVars, callerVars, limiterVars>>

\* the calls admitted to func in the HALF_OPEN episode, after a step that
\* leaves the state as new_state and admits a call or not
Trials(new_state, admits) ==
    IF new_state # "HALF_OPEN" THEN 0
    ELSE (IF state = "HALF_OPEN" THEN tally.trials ELSE 0) + (IF admits THEN 1 ELSE 0)

\* wrapper of worker w: "if self.state == 'OPEN'"
wrapper_enter(w) ==
    /\ workers[w].pc = "idle"
    /\ workers[w].calls < MaxCalls
    /\ workers' = [workers EXCEPT ![w].calls = @ + 1,
                                  ![w].pc = IF state = "OPEN" THEN "open_check" ELSE "invoking"]
    /\ tally' = [tally EXCEPT !.trials = Trials(state, state # "OPEN"),
                              !.invoked = IF state = "OPEN" THEN @ ELSE @ + 1]
    /\ UNCHANGED <<failure_count, last_failure_time, state>>
    /\ breakerWorkerFrame

\* wrapper: the recovery test; not elapsed, raise Exception("Circuit breaker is OPEN")
wrapper_open_check(w) ==
    /\ workers[w].pc = "open_check"
    /\ workers' = [workers EXCEPT ![w].pc = IF RecoveryElapsed(now) THEN "set_half" ELSE "idle"]
    /\ UNCHANGED <<failure_count, last_failure_time, state, tally>>
    /\ breakerWorkerFrame

\* wrapper: self.state = 'HALF_OPEN', then func is called
wrapper_set_half_open(w) ==
    /\ workers[w].pc = "set_half"
    /\ state' = "HALF_OPEN"
    /\ workers' = [workers EXCEPT ![w].pc = "invoking"]
    /\ tally' = [tally EXCEPT !.trials = Trials("HALF_OPEN", TRUE), !.invoked = @ + 1]
    /\ UNCHANGED <<failure_count, last_failure_time>>
    /\ breakerWorkerFrame

\* func of worker w returns (ok) or raises an expected error
wrapper_func_ends(w, ok) ==
    /\ workers[w].pc = "invoking"
    /\ workers' = [workers EXCEPT ![w].pc = IF ok THEN "success_reset" ELSE "failure_load"]
    /\ UNCHANGED <<failure_count, last_failure_time, state, tally>>
    /\ breakerWorkerFrame

\* _on_success: self.failure_count = 0
on_success_reset(w) ==
    /\ workers[w].pc = "success_reset"
    /\ failure_count' = 0
    /\ workers' = [workers EXCEPT ![w].pc = "success_close"]
    /\ UNCHANGED <<last_failure_time, state, tally>>
    /\ breakerWorkerFrame

\* _on_success: if self.state == 'HALF_OPEN': self.state = 'CLOSED'
on_success_close(w) ==
    /\ workers[w].pc = "success_close"
    /\ state' = IF state = "HALF_OPEN" THEN "CLOSED" ELSE state
    /\ tally' = [tally EXCEPT !.trials = Trials(state', FALSE)]
    /\ workers' = [workers EXCEPT ![w].pc = "idle"]
    /\ UNCHANGED <<failure_count, last_failure_time>>
    /\ breakerWorkerFrame

\* _on_failure: the read of self.failure_count in "self.failure_count += 1"
on_failure_load(w) ==
    /\ workers[w].pc = "failure_load"
    /\ workers' = [workers EXCEPT ![w].pc = "failure_store", ![w].tmp = failure_count]
    /\ UNCHANGED <<failure_count, last_failure_time, state, tally>>
    /\ breakerWorkerFrame

\* _on_failure: the write of self.failure_count, and
\* self.last_failure_time = time.time()
on_failure_store(w) ==
    /\ workers[w].pc = "failure_store"
    /\ failure_count' = workers[w].tmp + 1
    /\ last_failure_time' = now
    /\ workers' = [workers EXCEPT ![w].pc = "failure_open"]
    /\ UNCHANGED <<state, tally>>
    /\ breakerWorkerFrame

\* _on_failure: if self.failure_count >= self.failure_threshold: self.state = 'OPEN'
on_failure_open(w) ==
    /\ workers[w].pc = "failure_open"
    /\ state' = IF ThresholdReached(failure_count) THEN "OPEN" ELSE state
    /\ tally' = [tally EXCEPT !.trials = Trials(state', FALSE)]
    /\ workers' = [workers EXCEPT ![w].pc = "idle"]
    /\ UNCHANGED <<failure_count, last_failure_time>>
    /\ breakerWorkerFrame

wrapper_called == \E w \in Workers : wrapper_enter(w)

wrapper_recovery_test == \E w \in Workers : wrapper_open_check(w)

wrapper_half_open == \E w \in Workers : wrapper_set_half_open(w)

wrapper_func_returns == \E w \in Workers : wrapper_func_ends(w, TRUE)

wrapper_func_raises == \E w \in Workers : wrapper_func_ends(w, FALSE)

on_success == \E w \in Workers : on_success_reset(w) \/ on_success_close(w)

on_failure == \E w \in Workers : on_failure_load(w) \/ on_failure_store(w) \/ on_failure_open(w)

NextBreakerWorkers ==
    \/ wrapper_called
    \/ wrapper_recovery_test
    \/ wrapper_half_open
    \/ wrapper_func_returns
    \/ wrapper_func_raises
    \/ on_success
    \/ on_failure
    \/ Tick

SpecBreakerWorkers == InitBreakerWorkers /\ [][NextBreakerWorkers]_vars

(***************************************************************************)
(* AlertManager called by several threads: the monitoring loop and the     *)
(* tasks of the monitoring DAG share the singleton alert_manager.  Every   *)
(* worker makes one process_metrics_and_alerts call; the loop of           *)
(* check_alert_conditions holds no lock, and another thread may run        *)
(* between its cooldown test, the call of the condition and the stamp.     *)
(* The manager has no SMTP settings and no webhook.                        *)
(***************************************************************************)
\* the snapshots the concurrent callers pass
WorkerSnapshots == {SnapshotMonitor, SnapshotDag}

\* a worker before its call
AlertWorkerStart == [pc |-> "idle", i |-> 0, m |-> << >>, triggered |-> << >>]

InitAlertWorkers ==
    /\ AlertDefaults
    /\ workers = [w \in Workers |-> AlertWorkerStart]
    /\ stats_id = 0
    /\ tally = [invoked |-> 0, returned |-> 0, failed |-> 0, trials |-> 0]
    /\ max_retries = 3
    /\ config = DeterministicConfig
    /\ RetryConstructed
    /\ failure_threshold = 1
    /\ recovery_timeout = 1
    /\ expected_exception = {"Exception"}
    /\ BreakerConstructed
    /\ MonitorConstructed
    /\ NoCaller
    /\ NoLimiter

\* what the steps of a worker in the alert manager leave alone
alertWorkerFrame ==
    /\ UNCHANGED <<smtp_configured, webhook_urls, wall, apc, metrics, triggered_alerts,
                   alert_tasks, sent, history_before, cycles>>
    /\ UNCHANGED <<stats_id, tally>>
    /\ UNCHANGED <<retryVars, breakerVars, monitorVars, callerVars, limiterVars>>

\* "for rule in self.alert_rules": the worker goes on to the rule after i,
\* or leaves the loop
ToNextRule(w) ==
    IF workers[w].i < Len(alert_rules)
    THEN [workers EXCEPT ![w].pc = "cooldown", ![w].i = @ + 1]
    ELSE [workers EXCEPT ![w].pc = "dispatch"]

\* process_metrics_and_alerts(m) of worker w enters check_alert_conditions
evaluation_starts(w, m) ==
    /\ workers[w].pc = "idle"
    /\ workers' = [workers EXCEPT ![w] = [pc |-> "cooldown", i |-> 1, m |-> m,
                                         triggered |-> << >>]]
    /\ UNCHANGED <<alert_rules, alert_history>>
    /\ alertWorkerFrame

\* check_alert_conditions: the enabled test and the cooldown test of rule i
evaluation_cooldown(w) ==
    /\ workers[w].pc = "cooldown"
    /\ LET rule == alert_rules[workers[w].i]
       IN workers' = IF ~rule.enabled \/ InCooldown(rule, wall)
                     THEN ToNextRule(w)
                     ELSE [workers EXCEPT ![w].pc = "condition"]
    /\ UNCHANGED <<alert_rules, alert_history>>
    /\ alertWorkerFrame

\* check_alert_conditions: rule.condition(metrics) is called and returns or raises
evaluation_condition(w) ==
    /\ workers[w].pc = "condition"
    /\ LET rule == alert_rules[workers[w].i]
       IN workers' = IF ~ConditionRaises(rule, workers[w].m) /\ ConditionHolds(rule, workers[w].m)
                     THEN [workers EXCEPT ![w].pc = "stamp"]
                     ELSE ToNextRule(w)
    /\ UNCHANGED <<alert_rules, alert_history>>
    /\ alertWorkerFrame

\* check_alert_conditions: rule.last_triggered = datetime.now() and
\* triggered_alerts.append(rule)
evaluation_stamp(w) ==
    /\ workers[w].pc = "stamp"
    /\ alert_rules' = [alert_rules EXCEPT ![workers[w].i].last_triggered = wall]
    /\ workers' = [ToNextRule(w) EXCEPT
                      ![w].triggered = Append(@, [rule |-> workers[w].i, at |-> wall])]
    /\ UNCHANGED alert_history
    /\ alertWorkerFrame

\* the indices of the rules a worker has triggered
RECURSIVE RulesOf(_)
RulesOf(triggered) ==
    IF triggered = << >> THEN << >> ELSE <<Head(triggered).rule>> \o RulesOf(Tail(triggered))

\* process_metrics_and_alerts after check_alert_conditions: the coroutines
\* return at once, the history is stored and the call returns
evaluation_dispatch(w) ==
    /\ workers[w].pc = "dispatch"
    /\ alert_history' = store_history(alert_history, RulesOf(workers[w].triggered),
                                      alert_rules, workers[w].m, wall)
    /\ workers' = [workers EXCEPT ![w].pc = "done"]
    /\ UNCHANGED alert_rules
    /\ alertWorkerFrame

worker_process_metrics == \E w \in Workers, m \in WorkerSnapshots : evaluation_starts(w, m)

worker_cooldown_test == \E w \in Workers : evaluation_cooldown(w)

worker_condition == \E w \in Workers : evaluation_condition(w)

worker_stamp == \E w \in Workers : evaluation_stamp(w)

worker_store_history == \E w \in Workers : evaluation_dispatch(w)

NextAlertWorkers ==
    \/ worker_process_metrics
    \/ worker_cooldown_test
    \/ worker_condition
    \/ worker_stamp
    \/ worker_store_history
    \/ Advance

SpecAlertWorkers == InitAlertWorkers /\ [][NextAlertWorkers]_vars

(***************************************************************************)
(* Alert history and the caller's snapshot.  Dicts are objects with an     *)
(* identity: objects[id] maps the keys of a dict to numbers or, for a      *)
(* nested dict, to a reference.  The caller (process_alerts of the         *)
(* monitoring DAG) builds combined_metrics with the nested dict            *)
(* data_quality_scores, passes it to process_metrics_and_alerts and may    *)
(* change it afterwards.  The manager has no SMTP settings and no webhook. *)
(***************************************************************************)
\* the keys of a snapshot whose value is a dict
NestedKeys == {"data_quality_scores"}

\* failure_rate values of the pipeline metrics, in percent
CallerRates == {0, 15}

\* quality_score values of a table
CallerScores == {80, 90}

\* a value that refers to the dict with identity id
Reference(id) == [ref |-> id]

\* the content of dict id with the nested dicts followed
DeepValue(heap, id) ==
    [k \in DOMAIN heap[id] |->
        IF k \in NestedKeys THEN heap[heap[id][k].ref] ELSE heap[id][k]]

\* metrics.copy(): a new dict with the keys of dict id and the same value
\* objects; the new dict's identity is Len of the result
dict_copy(heap, id) == Append(heap, heap[id])

\* mutant: a new event is put in front of the ones stored before
RECURSIVE store_history_in_front(_, _, _, _, _, _)
store_history_in_front(history, heap, alerts, rules, id, t) ==
    IF alerts = << >> THEN <<history, heap>>
    ELSE LET copied == dict_copy(heap, id)
             event == [alert_name |-> rules[Head(alerts)].name,
                       severity |-> rules[Head(alerts)].severity,
                       timestamp |-> t,
                       metrics |-> Len(copied)]
         IN store_history_in_front(<<event>> \o history, copied, Tail(alerts), rules, id, t)

\* "Store alert history": <<alert_history, objects>> after one event per
\* triggered alert, each with its own metrics.copy()
RECURSIVE store_history_copies(_, _, _, _, _, _)
store_history_copies(history, heap, alerts, rules, id, t) ==
    IF alerts = << >> THEN <<history, heap>>
    ELSE LET copied == dict_copy(heap, id)
             event == [alert_name |-> rules[Head(alerts)].name,
                       severity |-> rules[Head(alerts)].severity,
                       timestamp |-> t,
                       metrics |-> Len(copied)]
         IN store_history_copies(Append(history, event), copied, Tail(alerts), rules, id, t)

\* the content of the events from..Len(history), as stored
RECURSIVE ContentFrom(_, _, _)
ContentFrom(history, heap, from) ==
    IF from > Len(history) THEN << >>
    ELSE <<DeepValue(heap, history[from].metrics)>> \o ContentFrom(history, heap, from + 1)

InitHistory ==
    /\ AlertDefaults
    /\ NoCaller
    /\ NoLimiter
    /\ NoWorkers
    /\ MonitorConstructed
    /\ max_retries = 3
    /\ config = DeterministicConfig
    /\ RetryConstructed
    /\ failure_threshold = 1
    /\ recovery_timeout = 1
    /\ expected_exception = {"Exception"}
    /\ BreakerConstructed

\* what the caller's own statements leave alone
callerFrame ==
    /\ UNCHANGED alertVars
    /\ UNCHANGED <<snapshot_taken, alert_stats>>
    /\ UNCHANGED <<retryVars, breakerVars, monitorVars, workerVars, limiterVars>>

\* process_alerts: combined_metrics = {**pipeline_metrics, ...,
\* 'data_quality_scores': {...}} and combined_metrics.update({...})
build_combined_metrics ==
    /\ combined_metrics = NoObject
    /\ \E rate \in CallerRates, score \in CallerScores :
         LET nested == Len(objects) + 1
             top == [k \in {"failure_rate", "dag_id", "sla_violations", "alert_recipients",
                            "data_quality_scores"} |->
                       CASE k = "failure_rate" -> rate
                         [] k = "sla_violations" -> 0
                         [] k = "data_quality_scores" -> Reference(nested)
                         [] OTHER -> 1]
         IN /\ objects' = objects \o <<[k \in {"orders"} |-> score], top>>
            /\ combined_metrics' = nested + 1
    /\ callerFrame

\* alert_manager.process_metrics_and_alerts(combined_metrics), the whole call
caller_process_alerts ==
    /\ combined_metrics # NoObject
    /\ apc = "idle"
    /\ cycles < MaxCycles
    /\ LET checked == check_alert_conditions(alert_rules, objects[combined_metrics], wall)
           stored == store_history_copies(alert_history, objects, checked[1], checked[2],
                                          combined_metrics, wall)
       IN /\ alert_rules' = checked[2]
          /\ alert_history' = stored[1]
          /\ objects' = stored[2]
          /\ snapshot_taken' = snapshot_taken
                                  \o ContentFrom(stored[1], stored[2], Len(alert_history) + 1)
    /\ cycles' = cycles + 1
    /\ UNCHANGED <<smtp_configured, webhook_urls, wall, apc, metrics, triggered_alerts,
                   alert_tasks, sent, history_before>>
    /\ UNCHANGED <<combined_metrics, alert_stats>>
    /\ UNCHANGED <<retryVars, breakerVars, monitorVars, workerVars, limiterVars>>

\* the caller changes a value of its snapshot: combined_metrics['failure_rate'] = rate
caller_sets_key ==
    /\ combined_metrics # NoObject
    /\ \E rate \in CallerRates :
         /\ objects[combined_metrics]["failure_rate"] # rate
         /\ objects' = [objects EXCEPT ![combined_metrics]["failure_rate"] = rate]
    /\ UNCHANGED combined_metrics
    /\ callerFrame

\* the caller adds a key to its snapshot: combined_metrics['run_id'] = 1
caller_adds_key ==
    /\ combined_metrics # NoObject
    /\ "run_id" \notin DOMAIN objects[combined_metrics]
    /\ objects' = [objects EXCEPT ![combined_metrics] =
                      [k \in DOMAIN @ \cup {"run_id"} |-> IF k = "run_id" THEN 1 ELSE @[k]]]
    /\ UNCHANGED combined_metrics
    /\ callerFrame

\* the caller removes a key from its snapshot: del combined_metrics['alert_recipients']
caller_removes_key ==
    /\ combined_metrics # NoObject
    /\ "alert_recipients" \in DOMAIN objects[combined_metrics]
    /\ objects' = [objects EXCEPT ![combined_metrics] =
                      [k \in DOMAIN @ \ {"alert_recipients"} |-> @[k]]]
    /\ UNCHANGED combined_metrics
    /\ callerFrame

\* the caller changes a value inside the nested dict:
\* combined_metrics['data_quality_scores']['orders'] = score
caller_sets_nested ==
    /\ combined_metrics # NoObject
    /\ LET nested == objects[combined_metrics]["data_quality_scores"].ref
       IN \E score \in CallerScores :
            /\ objects[nested]["orders"] # score
            /\ objects' = [objects EXCEPT ![nested]["orders"] = score]
    /\ UNCHANGED combined_metrics
    /\ callerFrame

\* the clock read by datetime.now() advances between the caller's statements
caller_waits ==
    /\ \E d \in WallSteps : wall + d <= MaxWall /\ wall' = wall + d
    /\ UNCHANGED <<smtp_configured, webhook_urls, alert_rules, alert_history, apc, metrics,
                   triggered_alerts, alert_tasks, sent, history_before, cycles>>
    /\ UNCHANGED callerVars
    /\ UNCHANGED <<retryVars, breakerVars, monitorVars, workerVars, limiterVars>>

NextHistory ==
    \/ build_combined_metrics
    \/ caller_process_alerts
    \/ caller_sets_key
    \/ caller_adds_key
    \/ caller_removes_key
    \/ caller_sets_nested
    \/ caller_waits

SpecHistory == InitHistory /\ [][NextHistory]_vars

(***************************************************************************)
(* get_alert_statistics, called on a manager whose earlier cycles left a   *)
(* history behind.  Times are in minutes.  The history is a run of events  *)
(* stamped more than 24 hours ago, then events stamped exactly 24 hours    *)
(* ago, then younger ones; the severities of the registered rules take     *)
(* turns.  A custom rule of severity info may have been registered,        *)
(* enabled or not.                                                         *)
(***************************************************************************)
\* timedelta(hours=24), in minutes
Hours24 == 1440

\* recent_alerts[-10:]
SummarySize == 10

\* the clock when the statistics are asked for
StatisticsNow == 1500

\* the timestamps of the events: older than 24 hours, exactly 24 hours old, younger
StampOld == 0
StampEdge == StatisticsNow - Hours24
StampYoung == 100

\* AlertRule.severity: 'critical', 'warning', 'info'
Severities == <<"critical", "warning", "info">>

\* a rule of severity info registered by add_alert_rule
Heartbeat(enabled) ==
    [name |-> "pipeline_heartbeat",
     condition |-> [get |-> TRUE, key |-> "heartbeat", default |-> 0, op |-> ">", threshold |-> 0],
     severity |-> "info", message_template |-> {"heartbeat"},
     cooldown_minutes |-> 5, enabled |-> enabled, last_triggered |-> NoTime]

\* the number of severities the registered rules have
SeveritiesOf(rules) == Cardinality({rules[i].severity : i \in 1..Len(rules)})

\* the history events left by earlier cycles: n events, the first old of them
\* older than 24 hours, the next edge exactly 24 hours old, severities in turn
\* from the one at index first among the first kinds severities
HistoryOf(n, old, edge, first, kinds) ==
    [j \in 1..n |->
        [alert_name |-> "alert",
         severity |-> Severities[((j + first) % kinds) + 1],
         timestamp |-> IF j <= old THEN StampOld
                       ELSE IF j <= old + edge THEN StampEdge ELSE StampYoung,
         metrics |-> NoObject]]

\* sum(1 for a in self.alert_history if a['severity'] == severity)
CountSeverity(history, severity) ==
    Cardinality({j \in 1..Len(history) : history[j].severity = severity})

\* [a for a in self.alert_history if fromisoformat(a['timestamp']) > now - 24 h]
RECURSIVE recent_alerts(_, _)
recent_alerts(history, t) ==
    IF history = << >> THEN << >>
    ELSE (IF Head(history).timestamp > t - Hours24 THEN <<Head(history)>> ELSE << >>)
             \o recent_alerts(Tail(history), t)

\* seq[-n:]
LastOf(seq, n) == IF Len(seq) <= n THEN seq ELSE SubSeq(seq, Len(seq) - n + 1, Len(seq))

\* AlertManager.get_alert_statistics(): the dict returned
get_alert_statistics(history, rules, t) ==
    [total_alerts |-> Len(history),
     critical_alerts |-> CountSeverity(history, "critical"),
     warning_alerts |-> CountSeverity(history, "warning"),
     recent_alerts_24h |-> Len(recent_alerts(history, t)),
     active_rules |-> Cardinality({i \in 1..Len(rules) : rules[i].enabled}),
     recent_alert_summary |-> LastOf(recent_alerts(history, t), SummarySize)]

InitStatistics ==
    /\ smtp_configured = FALSE
    /\ webhook_urls = << >>
    /\ \E custom \in {<< >>, <<Heartbeat(TRUE)>>, <<Heartbeat(FALSE)>>} :
         alert_rules = setup_default_alert_rules(<< >>) \o custom
    /\ \E n \in 0..MaxHistory :
         \E old \in 0..n :
           \E edge \in 0..(n - old) :
             \E first \in 0..(SeveritiesOf(alert_rules) - 1) :
               alert_history = HistoryOf(n, old, edge, first, SeveritiesOf(alert_rules))
    /\ wall = StatisticsNow
    /\ apc = "idle"
    /\ metrics = << >>
    /\ triggered_alerts = << >>
    /\ alert_tasks = << >>
    /\ sent = {}
    /\ history_before = 0
    /\ cycles = 0
    /\ NoCaller
    /\ NoLimiter
    /\ NoWorkers
    /\ MonitorConstructed
    /\ max_retries = 3
    /\ config = DeterministicConfig
    /\ RetryConstructed
    /\ failure_threshold = 1
    /\ recovery_timeout = 1
    /\ expected_exception = {"Exception"}
    /\ BreakerConstructed

\* alert_stats = alert_manager.get_alert_statistics()
caller_get_alert_statistics ==
    /\ alert_stats' = get_alert_statistics(alert_history, alert_rules, wall)
    /\ UNCHANGED alertVars
    /\ UNCHANGED <<objects, combined_metrics, snapshot_taken>>
    /\ UNCHANGED <<retryVars, breakerVars, monitorVars, workerVars, limiterVars>>

NextStatistics == caller_get_alert_statistics

SpecStatistics == InitStatistics /\ [][NextStatistics]_vars

(***************************************************************************)
(* The history over the life of one AlertManager: the caller of            *)
(* process_alerts runs cycles on its snapshot, changes the snapshot        *)
(* between them and asks for the statistics.                               *)
(***************************************************************************)
NextHistoryLog ==
    \/ build_combined_metrics
    \/ caller_process_alerts
    \/ caller_sets_key
    \/ caller_adds_key
    \/ caller_removes_key
    \/ caller_sets_nested
    \/ caller_waits
    \/ caller_get_alert_statistics

SpecHistoryLog == InitHistory /\ [][NextHistoryLog]_vars

(***************************************************************************)
(* InMemoryRateLimiter (app/middleware/rate_limit.py): one limiter, called *)
(* by the middleware for the clients of the service, one call at a time.   *)
(* Times are whole seconds of the clock read by time.time().               *)
(***************************************************************************)
\* the client ids of the model
Clients == {"10.0.0.1", "10.0.0.2"}

InitLimiter ==
    /\ max_requests \in 0..MaxRequests
    /\ window_size \in 1..MaxWindow
    /\ requests = << >>
    /\ current_time = 0
    /\ decisions = << >>
    /\ max_retries = 3
    /\ config = DeterministicConfig
    /\ RetryConstructed
    /\ failure_threshold = 1
    /\ recovery_timeout = 1
    /\ expected_exception = {"Exception"}
    /\ BreakerConstructed
    /\ AlertDefaults
    /\ MonitorConstructed
    /\ NoCaller
    /\ NoWorkers

\* what the limiter's operations leave alone
notLimiterVars == <<retryVars, breakerVars, alertVars, monitorVars, workerVars, callerVars>>

\* is_allowed: current_time - req_time < self.window_size
InWindow(t, req_time) == t - req_time < window_size

\* is_allowed: "Remove old requests outside the window"
RECURSIVE RemoveOld(_, _)
RemoveOld(times, t) ==
    IF times = << >> THEN << >>
    ELSE (IF InWindow(t, Head(times)) THEN <<Head(times)>> ELSE << >>)
             \o RemoveOld(Tail(times), t)

\* mutant: a client at the limit is admitted once more
WithinLimit_inclusive(times) == Len(times) <= max_requests

\* is_allowed: len(self.requests[client_id]) < self.max_requests
WithinLimit(times) == Len(times) < max_requests

\* InMemoryRateLimiter.is_allowed(client_id) at the time the clock shows
is_allowed(client_id) ==
    /\ Len(decisions) < MaxLimiterCalls
    /\ LET listed == IF client_id \in DOMAIN requests THEN requests[client_id] ELSE << >>
           kept == RemoveOld(listed, current_time)
           allowed == WithinLimit(kept)
       IN /\ requests' = [c \in DOMAIN requests \cup {client_id} |->
                             IF c = client_id
                             THEN (IF allowed THEN Append(kept, current_time) ELSE kept)
                             ELSE requests[c]]
          /\ decisions' = Append(decisions, [client |-> client_id, time |-> current_time,
                                             allowed |-> allowed])
    /\ UNCHANGED <<max_requests, window_size, current_time>>
    /\ UNCHANGED notLimiterVars

is_allowed_called == \E client_id \in Clients : is_allowed(client_id)

\* the clock read by time.time() advances between two calls
limiter_clock_advances ==
    /\ current_time < MaxLimiterTime
    /\ current_time' = current_time + 1
    /\ UNCHANGED <<max_requests, window_size, requests, decisions>>
    /\ UNCHANGED notLimiterVars

NextLimiter ==
    \/ is_allowed_called
    \/ limiter_clock_advances

SpecLimiter == InitLimiter /\ [][NextLimiter]_vars

(***************************************************************************)
(* Properties of the Retry Executor                                        *)
(***************************************************************************)
RetryDone == rpc \in {"returned", "raised"}

\* the retryable error kinds: connection, timeout, I/O
RetryableKinds == {"ConnectionError", "TimeoutError", "OSError"}

\* the fatal kinds named by the contract: out-of-memory, type, validation
FatalKinds == {"MemoryError", "TypeError", "ValueError"}

AllRetryableFailures(n) == \A i \in 1..n : invoked[i] \in RetryableKinds

StatOf(stats, name, field) == IF name \in DOMAIN stats THEN stats[name][field] ELSE 0

\* C1: with max_retries = N >= 1 and an operation that fails with a retryable
\* error on every invocation, the call invokes the operation exactly N times
\* and then raises; total_attempts of the name grew by N and
\* failed_operations by exactly 1.
C1_RetryableExhaustion ==
    (max_retries >= 1 /\ rpc # "idle" /\ AllRetryableFailures(Len(invoked))) =>
        /\ Len(invoked) <= max_retries
        /\ rpc # "returned"
        /\ rpc = "raised" =>
            /\ Len(invoked) = max_retries
            /\ StatOf(retry_stats, operation_name, "total_attempts")
                 = StatOf(stats_before, operation_name, "total_attempts") + max_retries
            /\ StatOf(retry_stats, operation_name, "failed_operations")
                 = StatOf(stats_before, operation_name, "failed_operations") + 1

C1_Witness ==
    /\ rpc = "raised"
    /\ max_retries >= 2
    /\ Len(invoked) = max_retries
    /\ AllRetryableFailures(Len(invoked))
    /\ StatOf(stats_before, operation_name, "total_attempts") > 0

\* C2: when the operation fails k < max_retries times with retryable errors
\* and then succeeds, the call goes on to invocation k+1 and returns its
\* value; on fresh stats successful_operations = 1 and total_attempts = k+1.
C2_SuccessAfterFailures ==
    /\ (RetryDone /\ AllRetryableFailures(Len(invoked))) => Len(invoked) >= max_retries
    /\ (invoked # << >> /\ invoked[Len(invoked)] = "ok" /\ AllRetryableFailures(Len(invoked) - 1)) =>
        /\ rpc = "returned"
        /\ Len(invoked) - 1 < max_retries
        /\ outcome = [tag |-> "value", kind |-> "ok", origin |-> Len(invoked)]
        /\ operation_name \notin DOMAIN stats_before =>
            /\ retry_stats[operation_name].successful_operations = 1
            /\ retry_stats[operation_name].total_attempts = Len(invoked)

C2_Witness ==
    /\ rpc = "returned"
    /\ Len(invoked) = 3
    /\ AllRetryableFailures(2)
    /\ invoked[3] = "ok"
    /\ operation_name \notin DOMAIN stats_before

\* C3: when the operation fails on attempt 1 with a fatal error kind, the
\* call raises at once: one invocation, total_attempts grew by exactly 1,
\* no backoff sleep.
C3_FatalFirstAttempt ==
    (invoked # << >> /\ invoked[1] \in FatalKinds) =>
        /\ rpc = "raised"
        /\ Len(invoked) = 1
        /\ sleeps = << >>
        /\ outcome = [tag |-> "error", kind |-> invoked[1], origin |-> 1]
        /\ StatOf(retry_stats, operation_name, "total_attempts")
             = StatOf(stats_before, operation_name, "total_attempts") + 1

C3_Witness ==
    /\ rpc = "raised"
    /\ max_retries >= 2
    /\ invoked = <<"ValueError">>
    /\ StatOf(stats_before, operation_name, "total_attempts") > 0

\* C4: whenever a retry call ends in failure, the error raised to the caller
\* is exactly the error raised by the last invocation of the operation.
C4_RaisesLastError ==
    rpc = "raised" =>
        /\ invoked # << >>
        /\ outcome = [tag |-> "error", kind |-> invoked[Len(invoked)], origin |-> Len(invoked)]

\* C5: for every max_retries >= 0 a retry call either returns a value the
\* operation returned or raises an error the operation itself raised, never
\* an error made by the executor's own bookkeeping.
C5_NoBookkeepingError ==
    RetryDone =>
        /\ outcome.origin \in 1..Len(invoked)
        /\ invoked[outcome.origin] = outcome.kind
        /\ outcome.tag = (IF outcome.kind = "ok" THEN "value" ELSE "error")

(***************************************************************************)
(* Properties of the Circuit Breaker                                       *)
(***************************************************************************)
\* time elapsed since last_failure_time when the latest call entered the wrapper
EntryElapsed == bcall.entry_now - bcall.entry_last_failure

\* C6: after failure_threshold consecutive calls that fail with an expected
\* error the state is OPEN, and the next call made while no more than
\* recovery_timeout has elapsed fails with the circuit-open rejection
\* without invoking the wrapped operation.
C6_OpensAfterThreshold ==
    /\ (bpc = "idle" /\ bcall.streak >= failure_threshold) => state = "OPEN"
    /\ (bcall.entry_state = "OPEN" /\ bcall.streak >= failure_threshold
          /\ EntryElapsed <= recovery_timeout) =>
        /\ bcall.result = "rejected"
        /\ bcall.kind = "Exception"
        /\ ~bcall.invoked
        /\ bpc = "idle"

C6_Witness ==
    /\ failure_threshold = 2
    /\ bcall.streak = failure_threshold
    /\ bcall.result = "rejected"
    /\ bcall.entry_count = failure_threshold
    /\ state = "OPEN"

\* C7: a call that finds the breaker OPEN with strictly more than
\* recovery_timeout elapsed since last_failure_time moves it to HALF_OPEN and
\* invokes the operation, and a success ends in CLOSED with failure_count 0;
\* while the elapsed time is not greater, the call is rejected and the state
\* stays OPEN.
C7_RecoveryAfterTimeout ==
    /\ (bcall.entry_state = "OPEN" /\ EntryElapsed > recovery_timeout) =>
        /\ bcall.half_open
        /\ bcall.invoked
        /\ bpc = "invoking" => state = "HALF_OPEN"
        /\ (bpc = "idle" /\ bcall.result = "value") => (state = "CLOSED" /\ failure_count = 0)
    /\ (bcall.entry_state = "OPEN" /\ EntryElapsed <= recovery_timeout) =>
        /\ bcall.result = "rejected"
        /\ ~bcall.invoked
        /\ bpc = "idle"
        /\ state = "OPEN"

C7_Witness ==
    /\ bcall.entry_state = "OPEN"
    /\ EntryElapsed = recovery_timeout + 1
    /\ bcall.half_open
    /\ bcall.result = "value"
    /\ bpc = "idle"
    /\ state = "CLOSED"
    /\ failure_count = 0

\* C8: after the single trial call of a HALF_OPEN episode completes, whatever
\* its outcome, the breaker is no longer HALF_OPEN: a success leaves it CLOSED
\* with failure_count 0, a failure re-stamps last_failure_time, increments
\* failure_count and leaves it OPEN.
C8_SingleTrial ==
    (bpc = "idle" /\ bcall.half_open) =>
        /\ state # "HALF_OPEN"
        /\ bcall.result = "value" => (state = "CLOSED" /\ failure_count = 0)
        /\ bcall.result = "error" =>
            /\ state = "OPEN"
            /\ last_failure_time = bcall.exit_now
            /\ failure_count = bcall.entry_count + 1

(***************************************************************************)
(* Properties of the Alert Rule Engine and the Alert Dispatcher            *)
(***************************************************************************)
\* the step that runs check_alert_conditions
Evaluates == apc = "idle" /\ cycles' = cycles + 1

\* C9: for an enabled rule whose condition holds, an evaluation at time t'
\* does not fire it when it last fired at t with t' - t < cooldown, fires it
\* when t' - t >= cooldown, and never skips a rule that has not fired yet.
C9_Cooldown ==
    [][Evaluates =>
        \A i \in 1..Len(alert_rules) :
            (alert_rules[i].enabled /\ ConditionHolds(alert_rules[i], metrics')) =>
                LET t == alert_rules[i].last_triggered
                    cooldown == alert_rules[i].cooldown_minutes
                    fires == \E j \in 1..Len(triggered_alerts') : triggered_alerts'[j] = i
                IN /\ (t # NoTime /\ wall - t < cooldown) =>
                        (~fires /\ alert_rules'[i].last_triggered = t)
                   /\ (t # NoTime /\ wall - t >= cooldown) =>
                        (fires /\ alert_rules'[i].last_triggered = wall)
                   /\ t = NoTime => (fires /\ alert_rules'[i].last_triggered = wall)
    ]_vars

\* a rule fires for the second time exactly cooldown_minutes after its first firing
C9_Witness ==
    /\ apc = "gathering"
    /\ \E j \in 1..Len(triggered_alerts) :
         LET rule == alert_rules[triggered_alerts[j]]
         IN /\ rule.last_triggered = wall
            /\ \E e \in 1..Len(alert_history) :
                 /\ alert_history[e].alert_name = rule.name
                 /\ wall - alert_history[e].timestamp = rule.cooldown_minutes

\* the configured notifier channels: 0 is email, u >= 1 is webhook_urls[u]
Channels == (IF smtp_configured THEN {0} ELSE {}) \cup (1..Len(webhook_urls))

\* a call of process_metrics_and_alerts has returned
Dispatched == apc = "idle" /\ cycles > 0

SentTo(i, ch) == \E x \in sent : x.rule = i /\ x.channel = ch

\* C10 as stated: a dispatch of N fired rules over M channels issues all
\* N*M sends, returns after all have settled and grows alert_history by N.
C10_AllSendsIssued ==
    Dispatched =>
        /\ alert_tasks = << >>
        /\ \A j \in 1..Len(triggered_alerts) : \A ch \in Channels : SentTo(triggered_alerts[j], ch)
        /\ Cardinality(sent) = Len(triggered_alerts) * Cardinality(Channels)
        /\ Len(alert_history) = history_before + Len(triggered_alerts)

\* C10 amended: every fired rule whose message_template can be formatted
\* from the snapshot is sent on all M channels, whatever the outcome of the
\* other sends; a fired rule whose template cannot be formatted is sent on
\* none; the call returns after all coroutines have ended and alert_history
\* has grown by exactly N.
C10_FormattableSendsIssued ==
    Dispatched =>
        /\ alert_tasks = << >>
        /\ \A j \in 1..Len(triggered_alerts) : \A ch \in Channels :
             SentTo(triggered_alerts[j], ch) <=> Formats(alert_rules[triggered_alerts[j]], metrics)
        /\ \A x \in sent :
             /\ x.channel \in Channels
             /\ \E j \in 1..Len(triggered_alerts) : triggered_alerts[j] = x.rule
        /\ Len(alert_history) = history_before + Len(triggered_alerts)

\* two rules fired over at least two channels, one send failed, all were issued
C10_Witness ==
    /\ Dispatched
    /\ Len(triggered_alerts) = 2
    /\ Cardinality(Channels) >= 2
    /\ Cardinality(sent) = 2 * Cardinality(Channels)
    /\ \E x \in sent : ~x.ok
    /\ \E x \in sent : x.ok
    /\ Len(alert_history) = history_before + 2

(***************************************************************************)
(* Properties of the default rules and of rule registration                *)
(***************************************************************************)
\* rule i is in the triggered_alerts returned by the evaluation step
FiresNext(i) == \E j \in 1..Len(triggered_alerts') : triggered_alerts'[j] = i

\* the names of the rules in the triggered_alerts of the latest evaluation
FiredNames == {alert_rules[triggered_alerts[j]].name : j \in 1..Len(triggered_alerts)}

\* the number of default rules
DefaultCount == Len(setup_default_alert_rules(<< >>))

\* the snapshot holds the rule's own metric strictly beyond its threshold
\* (0.1 is 10 and 0.8 is 80 hundredths)
StrictlyCrossed(name, m) ==
    CASE name = "high_failure_rate" -> "failure_rate" \in DOMAIN m /\ m["failure_rate"] > 10
      [] name = "long_running_task" -> "task_duration" \in DOMAIN m /\ m["task_duration"] > 3600
      [] name = "low_data_quality" ->
             "data_quality_score" \in DOMAIN m /\ m["data_quality_score"] < 80
      [] name = "high_memory_usage" ->
             "memory_usage_percent" \in DOMAIN m /\ m["memory_usage_percent"] > 90
      [] name = "sla_violation" -> "sla_violations" \in DOMAIN m /\ m["sla_violations"] > 0
      [] OTHER -> FALSE

\* C11: evaluating {failure_rate: 0.15, memory_usage_percent: 50} against a
\* freshly constructed default rule set fires exactly high_failure_rate
\* (critical); a default rule fires only when the snapshot holds its own
\* metric strictly beyond its threshold, so never on a missing key.
C11_DefaultRules ==
    [][Evaluates =>
        /\ (cycles = 0 /\ Len(alert_rules) = DefaultCount /\ metrics' = SnapshotSpec) =>
              /\ Len(triggered_alerts') = 1
              /\ alert_rules'[triggered_alerts'[1]].name = "high_failure_rate"
              /\ alert_rules'[triggered_alerts'[1]].severity = "critical"
        /\ \A i \in 1..DefaultCount :
              FiresNext(i) => StrictlyCrossed(alert_rules[i].name, metrics')
        /\ Len(alert_rules') = Len(alert_rules)
    ]_vars

\* the first evaluation of a fresh default rule set, on the snapshot of the
\* scenario, has fired high_failure_rate alone
C11_Witness ==
    /\ cycles = 1
    /\ Len(alert_rules) = DefaultCount
    /\ metrics = SnapshotSpec
    /\ FiredNames = {"high_failure_rate"}
    /\ alert_rules[1].last_triggered = wall
    /\ \A i \in 2..DefaultCount : alert_rules[i].last_triggered = NoTime

\* rule i is long_running_task as constructed, not fired in the last 30 minutes
LongRunningReady(i) ==
    /\ alert_rules[i].name = "long_running_task"
    /\ alert_rules[i].severity = "warning"
    /\ alert_rules[i].last_triggered = NoTime \/ wall - alert_rules[i].last_triggered >= 30

\* C12 as stated: long_running_task (warning, cooldown 30 minutes) fires when
\* the snapshot's task_duration_seconds is greater than 3600 and does not
\* fire when it is 3600 or less.
C12_TaskDurationSeconds ==
    [][Evaluates =>
        \A i \in 1..DefaultCount :
            (LongRunningReady(i) /\ "task_duration_seconds" \in DOMAIN metrics') =>
                (FiresNext(i) <=> metrics'["task_duration_seconds"] > 3600)
    ]_vars

\* C12 amended: long_running_task (warning, cooldown 30 minutes) fires when
\* the snapshot's task_duration is greater than 3600, and does not fire when
\* it is 3600 or less, when the key is missing, or within 30 minutes of its
\* last firing.
C12_TaskDuration ==
    [][Evaluates =>
        \A i \in 1..DefaultCount :
            alert_rules[i].name = "long_running_task" =>
                /\ alert_rules[i].severity = "warning"
                /\ FiresNext(i) <=>
                       /\ LongRunningReady(i)
                       /\ "task_duration" \in DOMAIN metrics'
                       /\ metrics'["task_duration"] > 3600
    ]_vars

\* a task of 3601 s under the key task_duration has fired long_running_task alone
C12_Witness ==
    /\ cycles > 0
    /\ metrics = SnapshotLong
    /\ FiredNames = {"long_running_task"}
    /\ alert_rules[2].last_triggered = wall

\* rule i is not in cooldown at the time of the evaluation step
OutOfCooldown(i) ==
    alert_rules[i].last_triggered = NoTime
        \/ wall - alert_rules[i].last_triggered >= alert_rules[i].cooldown_minutes

\* C13: when the condition of an enabled rule raises during
\* check_alert_conditions the rule is skipped (not fired, last_triggered not
\* stamped), every other rule is still evaluated in the same call and fires
\* if its condition holds, and the call returns its list.
C13_ConditionErrorSkipped ==
    [][Evaluates =>
        /\ \A i \in 1..Len(alert_rules) :
              (alert_rules[i].enabled /\ ConditionRaises(alert_rules[i], metrics')) =>
                  /\ ~FiresNext(i)
                  /\ alert_rules'[i] = alert_rules[i]
        /\ \A j \in 1..Len(alert_rules) :
              (alert_rules[j].enabled /\ OutOfCooldown(j)
                 /\ ~ConditionRaises(alert_rules[j], metrics')
                 /\ ConditionHolds(alert_rules[j], metrics')) =>
                  /\ FiresNext(j)
                  /\ alert_rules'[j].last_triggered = wall
        /\ Len(alert_rules') = Len(alert_rules)
        /\ apc' = "idle"
    ]_vars

\* the condition of rule 6 raised on a snapshot without row_count; rule 1
\* before it and rule 7 after it fired in the same call
C13_Witness ==
    /\ cycles > 0
    /\ Len(alert_rules) = 7
    /\ alert_rules[6].enabled
    /\ ConditionRaises(alert_rules[6], metrics)
    /\ alert_rules[6].last_triggered = NoTime
    /\ triggered_alerts = <<1, 7>>
    /\ alert_rules[1].last_triggered = wall
    /\ alert_rules[7].last_triggered = wall

(***************************************************************************)
(* Properties of the dispatch: formatting errors                           *)
(***************************************************************************)
\* the j-th fired rule of the latest dispatch
Fired(j) == alert_rules[triggered_alerts[j]]

\* some fired rule of the latest dispatch has a template that names a key
\* missing from the snapshot
BadTemplateFired == \E j \in 1..Len(triggered_alerts) : ~Formats(Fired(j), metrics)

\* C14: when a fired rule's message_template names a key missing from the
\* snapshot, process_metrics_and_alerts does not raise, the notifications of
\* every other fired rule of the dispatch (every fired rule whose own
\* template formats) are still sent on every channel, and one history event
\* is appended for every fired rule, the one with the bad template included.
C14_BadTemplateContained ==
    /\ apc # "raised"
    /\ (Dispatched /\ BadTemplateFired) =>
          /\ alert_tasks = << >>
          /\ \A j \in 1..Len(triggered_alerts) :
                Formats(Fired(j), metrics) =>
                    \A ch \in Channels : SentTo(triggered_alerts[j], ch)
          /\ Len(alert_history) = history_before + Len(triggered_alerts)
          /\ \A j \in 1..Len(triggered_alerts) :
                /\ alert_history[history_before + j].alert_name = Fired(j).name
                /\ alert_history[history_before + j].severity = Fired(j).severity

\* the bad template came first: the rule after it was sent on two channels
\* and both rules are in the history
C14_Witness ==
    /\ Dispatched
    /\ Len(triggered_alerts) = 2
    /\ ~Formats(Fired(1), metrics)
    /\ Formats(Fired(2), metrics)
    /\ Cardinality(Channels) >= 2
    /\ \A ch \in Channels : SentTo(triggered_alerts[2], ch)
    /\ ~\E ch \in Channels : SentTo(triggered_alerts[1], ch)
    /\ Len(alert_history) = history_before + 2
    /\ alert_history[history_before + 1].alert_name = Fired(1).name

(***************************************************************************)
(* Properties of rule registration                                         *)
(***************************************************************************)
\* C15: after any sequence of add_alert_rule registrations on top of the
\* default rules, no two rules held by the engine have the same name.
C15_UniqueNames ==
    \A i, j \in 1..Len(alert_rules) :
        alert_rules[i].name = alert_rules[j].name => i = j

(***************************************************************************)
(* Properties of the Monitor Loop                                          *)
(***************************************************************************)
\* the threads whose monitoring_loop has not ended
AliveLoops == {i \in 1..Len(loops) : loops[i].pc # "exited"}

\* the step is a call of start_monitoring
StartCalled == mcalls' = mcalls + 1 /\ mlast'.op = "start"

\* C16: after any sequence of start_monitoring / stop_monitoring calls of
\* one lifecycle thread at most one monitoring loop is alive, and a start
\* issued while monitoring_active is true launches no loop and leaves the
\* existing loop, its interval and monitoring_active as they are.
C16_StartNoOpWhileRunning ==
    /\ [](Cardinality(AliveLoops) <= 1)
    /\ [][(StartCalled /\ monitoring_active) =>
             /\ loops' = loops
             /\ monitoring_thread' = monitoring_thread
             /\ monitoring_active'
             /\ lpc' = "idle"
         ]_vars

\* after start, stop and a second start, a third start found the monitor
\* running: the second loop is the only one alive
C16_Witness ==
    /\ mlast = [op |-> "start", was_active |-> TRUE, launched |-> FALSE, joined |-> NoThread]
    /\ Len(loops) = 2
    /\ AliveLoops = {2}
    /\ monitoring_thread = 2
    /\ monitoring_active

\* thread i has been started and is at position pc
LoopAt(i, pc) == i <= Len(loops) /\ loops[i].pc = pc

\* C17: an error raised in a cycle is contained: the loop goes to its sleep
\* with its interval unchanged, a loop ends only when monitoring_active is
\* false, and under fairness the loop runs another cycle after an error
\* unless the monitor is stopped; cycles recur infinitely often while
\* monitoring_active stays true.
C17_LoopSurvivesErrors ==
    /\ [][\A i \in 1..Len(loops) :
             /\ (loops[i].pc = "cycle" /\ loops'[i].pc # "cycle" /\ loops'[i].last = "error") =>
                    loops'[i].pc = "sleep"
             /\ (loops[i].pc # "exited" /\ loops'[i].pc = "exited") => ~monitoring_active
             /\ loops'[i].interval = loops[i].interval
         ]_vars
    /\ \A i \in 1..MaxLifecycleCalls :
          (LoopAt(i, "sleep") /\ loops[i].last = "error")
              ~> (~monitoring_active \/ LoopAt(i, "cycle"))
    /\ []<>(~monitoring_active \/ \E i \in 1..Len(loops) : loops[i].pc = "cycle")
    /\ []<>(~monitoring_active \/ \E i \in 1..Len(loops) : loops[i].pc = "sleep")

\* the cycle before this one raised, the monitor was not stopped, and the
\* same loop is in its next cycle
C17_Witness ==
    /\ monitoring_active
    /\ monitoring_thread # NoThread
    /\ loops[monitoring_thread].pc = "cycle"
    /\ loops[monitoring_thread].last = "error"
    /\ mlast.op = "start"

\* the latest lifecycle call was stop_monitoring and it has returned
StopReturned == lpc = "idle" /\ mlast.op = "stop"

\* C18: stop_monitoring sets monitoring_active to false and returns only
\* after the loop has ended, so that once it has returned no loop is alive
\* and no cycle starts; under fairness (the cycle in progress and the sleep
\* come to an end) a stop that waits does return; a stop on a monitor that
\* was never started returns at once.
C18_StopJoins ==
    /\ [](mlast.op = "stop" => ~monitoring_active)
    /\ [](StopReturned => AliveLoops = {})
    /\ [][(StopReturned /\ mlast' = mlast /\ mcalls' = mcalls) => loops' = loops]_vars
    /\ [][(mcalls' = mcalls + 1 /\ mlast'.op = "stop" /\ monitoring_thread = NoThread) =>
             (lpc' = "idle" /\ UNCHANGED <<monitoring_thread, loops>>)]_vars
    /\ (lpc = "joining") ~> (lpc = "idle")

\* stop was called on a running monitor whose loop had run a cycle, and it
\* has returned: the loop it joined has ended
C18_Witness ==
    /\ StopReturned
    /\ mlast.was_active
    /\ mlast.joined # NoThread
    /\ loops[mlast.joined].pc = "exited"
    /\ loops[mlast.joined].last # "none"
    /\ ~monitoring_active

(***************************************************************************)
(* Properties under concurrent workers                                     *)
(***************************************************************************)
\* every worker's retry call has returned or raised
WorkersDone == \A w \in DOMAIN workers : workers[w].pc \in {"returned", "raised"}

\* C19: when two or more workers make retry calls on one RetryHandler under
\* one operation name, under every interleaving the final total_attempts of
\* the name equals the number of invocations of the operation and
\* successful_operations the number of calls that returned.
C19_StatsExactUnderWorkers ==
    (workers # << >> /\ WorkersDone) =>
        /\ StatOf(retry_stats, SharedName, "total_attempts") = tally.invoked
        /\ StatOf(retry_stats, SharedName, "successful_operations") = tally.returned

\* C20: under every interleaving of calls from two or more workers on one
\* breaker, at most one call executes the wrapped operation during a single
\* HALF_OPEN episode, and whenever the state is OPEN failure_count is at
\* least failure_threshold.
C20_BreakerSafeUnderWorkers ==
    /\ tally.trials <= 1
    /\ state = "OPEN" => failure_count >= failure_threshold

\* the distance of two clock readings
Apart(t1, t2) == IF t1 >= t2 THEN t1 - t2 ELSE t2 - t1

\* C21: when evaluations run concurrently on one AlertManager with snapshots
\* that satisfy a rule's condition, under every interleaving the rule fires
\* in at most one of them within one cooldown window: two firings of one
\* rule are at least cooldown_minutes apart.
C21_CooldownUnderWorkers ==
    \A w1, w2 \in DOMAIN workers :
        w1 # w2 =>
            \A j1 \in 1..Len(workers[w1].triggered), j2 \in 1..Len(workers[w2].triggered) :
                LET f1 == workers[w1].triggered[j1]
                    f2 == workers[w2].triggered[j2]
                IN f1.rule = f2.rule =>
                       Apart(f1.at, f2.at) >= alert_rules[f1.rule].cooldown_minutes

\* a coroutine of alert_tasks that has not run yet and issues a send when it runs
WillSend(task) ==
    /\ Formats(alert_rules[task.rule], metrics)
    /\ IF task.send = "email" THEN smtp_configured ELSE webhook_urls # << >>

\* C22: all sends of one dispatch are in flight at once: while a send of the
\* dispatch has completed, no send of the dispatch is still to be started.
C22_AllSendsInFlight ==
    (apc = "gathering" /\ sent # {}) =>
        \A j \in 1..Len(alert_tasks) : ~WillSend(alert_tasks[j])

\* C23: each history event holds a defensive copy of the snapshot: whatever
\* the caller does to its snapshot afterwards (keys added, removed or
\* changed, values changed inside nested dicts), the metrics stored with an
\* event read as they did when the event was stored.
C23_HistoryHoldsCopies ==
    \A j \in 1..Len(snapshot_taken) :
        j <= Len(alert_history) =>
            DeepValue(objects, alert_history[j].metrics) = snapshot_taken[j]

\* what the shallow copy gives: the keys of a stored snapshot and its values
\* that are not dicts stay as they were stored
StoredTopLevelHeld ==
    \A j \in 1..Len(snapshot_taken) :
        j <= Len(alert_history) =>
            LET stored == objects[alert_history[j].metrics]
            IN /\ DOMAIN stored = DOMAIN snapshot_taken[j]
               /\ \A k \in DOMAIN stored \ NestedKeys : stored[k] = snapshot_taken[j][k]

\* C24: recent_alert_summary is exactly the last min(10, len(alert_history))
\* events of alert_history in insertion order, whatever their age.
C24_SummaryIsLastTen ==
    alert_stats # NoStatistics =>
        alert_stats.recent_alert_summary = LastOf(alert_history, SummarySize)

\* the severities the returned dict has a count for
CountedSeverities == {"critical", "warning"}

\* C25: total_alerts is len(alert_history), every event is counted under its
\* own severity so that the counts by severity sum to total_alerts,
\* recent_alerts_24h is the number of events stamped in the trailing 24
\* hours and active_rules is the number of enabled rules.
C25_CountsBySeverity ==
    alert_stats # NoStatistics =>
        /\ alert_stats.total_alerts = Len(alert_history)
        /\ \A j \in 1..Len(alert_history) : alert_history[j].severity \in CountedSeverities
        /\ alert_stats.critical_alerts + alert_stats.warning_alerts = alert_stats.total_alerts
        /\ alert_stats.recent_alerts_24h =
               Cardinality({j \in 1..Len(alert_history) :
                              alert_history[j].timestamp > wall - Hours24})
        /\ alert_stats.active_rules =
               Cardinality({i \in 1..Len(alert_rules) : alert_rules[i].enabled})

\* what holds of the counts whatever the severities: the total, the 24 hour
\* window and the enabled rules
StatisticsOtherCounts ==
    alert_stats # NoStatistics =>
        /\ alert_stats.total_alerts = Len(alert_history)
        /\ alert_stats.critical_alerts + alert_stats.warning_alerts
               + CountSeverity(alert_history, "info") = alert_stats.total_alerts
        /\ alert_stats.recent_alerts_24h =
               Cardinality({j \in 1..Len(alert_history) :
                              alert_history[j].timestamp > wall - Hours24})
        /\ alert_stats.active_rules =
               Cardinality({i \in 1..Len(alert_rules) : alert_rules[i].enabled})

\* C26: the breaker's circuit-open rejection is never classified by
\* should_retry and never retried: when the wrapper rejects an attempt of a
\* retried call, the handler does not sleep and call again.
C26_RejectionNotRetried ==
    (rpc = "sleeping" /\ bpc = "idle") => bcall.result # "rejected"

\* C28: every attempt is recorded exactly once: when a retry call has
\* completed, by returning or by raising an error of any kind (interrupts
\* included), total_attempts of the operation name has grown by exactly the
\* number of invocations of the operation the call made.
C28_EveryAttemptRecorded ==
    RetryDone =>
        StatOf(retry_stats, operation_name, "total_attempts")
            = StatOf(stats_before, operation_name, "total_attempts") + Len(invoked)

\* what holds of the attempts that end inside "except Exception" or in a
\* return: each of them is recorded once
CaughtAttemptsRecorded ==
    (RetryDone /\ \A i \in 1..Len(invoked) : invoked[i] = "ok" \/ IsInstance(invoked[i], {"Exception"})) =>
        StatOf(retry_stats, operation_name, "total_attempts")
            = StatOf(stats_before, operation_name, "total_attempts") + Len(invoked)

\* C30: for every strategy, every attempt >= 1 and every jitter outcome,
\* calculate_delay(attempt) returns a delay that is at most max_delay and
\* never negative.
C30_DelayClamped ==
    delay_result # NoDelay =>
        /\ ~delay_result.result.raises
        /\ delay_result.result.delay >= 0
        /\ delay_result.result.delay <= config.max_delay

\* what holds of the calls that return: the delay is within 0..max_delay
ReturnedDelayClamped ==
    (delay_result # NoDelay /\ ~delay_result.result.raises) =>
        /\ delay_result.result.delay >= 0
        /\ delay_result.result.delay <= config.max_delay

\* the delays calculate_delay(i) can return under the handler's configuration
DelaysOf(i) == {calculate_delay(config, i, r).delay : r \in RandomOutcomes}

\* C29: a call that makes a attempts performs exactly a - 1 sleeps, the i-th
\* after attempt i and lasting calculate_delay(i), and never sleeps after the
\* attempt that ends the call; with max_retries 3, base_delay 1 s,
\* EXPONENTIAL, backoff_factor 2, no jitter and an operation that always
\* times out, the call makes three attempts and sleeps 1 s, then 2 s.
C29_SleepsBetweenAttempts ==
    /\ Len(sleeps) <= Len(invoked)
    /\ \A i \in 1..Len(sleeps) : sleeps[i].after = i /\ sleeps[i].delay \in DelaysOf(i)
    /\ (RetryDone /\ invoked # << >>) => Len(sleeps) = Len(invoked) - 1
    /\ (rpc = "raised" /\ max_retries = 3 /\ config = DeterministicConfig
          /\ \A i \in 1..Len(invoked) : invoked[i] = "TimeoutError") =>
            /\ Len(invoked) = 3
            /\ sleeps = <<[after |-> 1, delay |-> 1000], [after |-> 2, delay |-> 2000]>>

C29_Witness ==
    /\ rpc = "raised"
    /\ max_retries = 3
    /\ config = DeterministicConfig
    /\ invoked = <<"TimeoutError", "TimeoutError", "TimeoutError">>
    /\ Len(sleeps) = 2

\* C27: retry_sync and retry_async have identical decision logic: under the
\* same configuration and the same outcomes of the invocations they make
\* the same number of invocations, sleep the same delays, make the same
\* _record_attempt calls in the same order and end with the same returned
\* value or raised error.
C27_ModesAgree ==
    mode_runs # NoRuns =>
        /\ mode_runs.async.invocations = mode_runs.sync.invocations
        /\ mode_runs.async.delays = mode_runs.sync.delays
        /\ mode_runs.async.records = mode_runs.sync.records
        /\ mode_runs.async.stats = mode_runs.sync.stats
        /\ mode_runs.async.result = mode_runs.sync.result

C27_Witness ==
    /\ mode_runs # NoRuns
    /\ max_retries = 3
    /\ mode_runs.func_kind = "coroutine function"
    /\ mode_runs.outcomes = <<"TimeoutError", "RuntimeError", "ok">>
    /\ mode_runs.sync.invocations = 3
    /\ Len(mode_runs.async.delays) = 2
    /\ mode_runs.async.result.tag = "value"

\* C31: with jitter disabled the EXPONENTIAL delay is non-decreasing in the
\* attempt number: of two calls of calculate_delay on one handler, the one
\* with the smaller attempt number returns a delay that is at most the
\* delay the other one returns.
C31_DelayNonDecreasing ==
    (/\ delay_result # NoDelay
     /\ delay_result.before # NoDelay
     /\ config.strategy = "EXPONENTIAL"
     /\ ~config.jitter
     /\ delay_result.before.attempt < delay_result.attempt) =>
        /\ ~delay_result.before.result.raises
        /\ ~delay_result.result.raises
        /\ delay_result.before.result.delay <= delay_result.result.delay

\* what holds of the pairs of calls that both return: the delays are ordered
\* as the attempt numbers are
ReturnedDelaysOrdered ==
    (/\ delay_result # NoDelay
     /\ delay_result.before # NoDelay
     /\ config.strategy = "EXPONENTIAL"
     /\ ~config.jitter
     /\ delay_result.before.attempt < delay_result.attempt
     /\ ~delay_result.before.result.raises
     /\ ~delay_result.result.raises) =>
        delay_result.before.result.delay <= delay_result.result.delay

\* the error is of a kind of the non-retryable set / of the retryable set
InNonRetryableSet(kind) == IsInstance(kind, non_retryable_exceptions)
InRetryableSet(kind) == IsInstance(kind, retryable_exceptions)

\* C32 as stated: should_retry(error, attempt) returns false when attempt >=
\* max_retries; otherwise false for every error kind in the non-retryable
\* set, true for every kind in the retryable set, and true for every other
\* kind.
C32_AsStated ==
    retry_decision # NoDecision =>
        IF retry_decision.attempt >= max_retries THEN ~retry_decision.result
        ELSE /\ InNonRetryableSet(retry_decision.kind) => ~retry_decision.result
             /\ InRetryableSet(retry_decision.kind) => retry_decision.result
             /\ (~InNonRetryableSet(retry_decision.kind) /\ ~InRetryableSet(retry_decision.kind))
                    => retry_decision.result

\* C32: should_retry(error, attempt) returns false when attempt >=
\* max_retries; otherwise false for every error kind in the non-retryable
\* set, also one that is in the retryable set as well, and true for every
\* other kind, retryable or unknown: the budget check takes precedence over
\* the error kind, and the non-retryable set over the retryable set.
C32_ShouldRetryClassifies ==
    retry_decision # NoDecision =>
        IF retry_decision.attempt >= max_retries THEN ~retry_decision.result
        ELSE IF InNonRetryableSet(retry_decision.kind) THEN ~retry_decision.result
        ELSE retry_decision.result

\* an I/O error that is a validation error too was classified within the
\* budget
C32_Witness ==
    /\ retry_decision # NoDecision
    /\ retry_decision.attempt < max_retries
    /\ InNonRetryableSet(retry_decision.kind)
    /\ InRetryableSet(retry_decision.kind)
    /\ ~retry_decision.result

\* event j of the history as it reads: its fields, with the stored metrics
\* followed into the nested dicts
EventRead(history, heap, j) ==
    [alert_name |-> history[j].alert_name,
     severity |-> history[j].severity,
     timestamp |-> history[j].timestamp,
     metrics |-> DeepValue(heap, history[j].metrics)]

\* the timestamps of the history do not decrease in insertion order
Chronological(history) ==
    \A i, j \in 1..Len(history) : i < j => history[i].timestamp <= history[j].timestamp

\* a step that is a call of process_metrics_and_alerts / of get_alert_statistics
CycleStep == cycles' = cycles + 1
QueryStep == alert_stats' # alert_stats

\* C33: alert_history is append-only and chronological: over cycles and
\* statistics queries its length never decreases, no event is removed or
\* replaced, the timestamps do not decrease in insertion order, and every
\* event appended before a cycle or a query reads after it as it did before.
C33_HistoryAppendOnly ==
    [][/\ Len(alert_history') >= Len(alert_history)
       /\ \A j \in 1..Len(alert_history) : alert_history'[j] = alert_history[j]
       /\ Chronological(alert_history')
       /\ (CycleStep \/ QueryStep) =>
            \A j \in 1..Len(alert_history) :
                EventRead(alert_history', objects', j) = EventRead(alert_history, objects, j)]_vars

\* two cycles at different times have appended events and the statistics
\* have been asked for
C33_Witness ==
    /\ cycles = 2
    /\ Len(alert_history) >= 2
    /\ alert_history[1].timestamp < alert_history[Len(alert_history)].timestamp
    /\ alert_stats # NoStatistics
    /\ alert_stats.total_alerts = Len(alert_history)

\* average_attempts_to_success of a name, 0 before its first record
MeanOf(stats, name) ==
    IF name \in DOMAIN stats THEN stats[name].average_attempts_to_success ELSE <<0, 1>>

\* average_attempts_to_success * successful_operations of a name, as a fraction
MeanTimesSuccesses(stats, name) ==
    Fraction(MeanOf(stats, name)[1] * StatOf(stats, name, "successful_operations"),
             MeanOf(stats, name)[2])

\* the step is an invocation of func that returns: the call succeeds at `attempt`
SuccessStep == invoked' = Append(invoked, "ok")

C35_RaisedCallsCounted ==
    RetryDone =>
        /\ StatOf(retry_stats, operation_name, "failed_operations")
             = StatOf(stats_before, operation_name, "failed_operations")
                 + (IF rpc = "raised" THEN 1 ELSE 0)
        /\ StatOf(retry_stats, operation_name, "successful_operations")
             = StatOf(stats_before, operation_name, "successful_operations")
                 + (IF rpc = "returned" THEN 1 ELSE 0)

\* what the code counts: a call that raised is a failed operation when its
\* last invocation was number max_retries and raised an Exception
FinalAttemptFailuresCounted ==
    RetryDone =>
        /\ StatOf(retry_stats, operation_name, "failed_operations")
             = StatOf(stats_before, operation_name, "failed_operations")
                 + (IF /\ rpc = "raised"
                       /\ Len(invoked) = max_retries
                       /\ max_retries > 0
                       /\ IsInstance(invoked[Len(invoked)], {"Exception"})
                    THEN 1 ELSE 0)
        /\ StatOf(retry_stats, operation_name, "successful_operations")
             = StatOf(stats_before, operation_name, "successful_operations")
                 + (IF rpc = "returned" THEN 1 ELSE 0)

RejectionStep == bpc = "idle" /\ bpc' = "idle" /\ bcall'.result = "rejected" /\ now' = now

\* C37: a call rejected because the breaker is OPEN changes nothing: state,
\* failure_count and last_failure_time are as before the call and the
\* operation is not invoked, so the call admitted to HALF_OPEN is the first
\* one made more than recovery_timeout after the last counted failure,
\* however many calls were rejected in between.
C37_RejectionChangesNothing ==
    [][/\ RejectionStep =>
            /\ state = "OPEN"
            /\ ~RecoveryElapsed(now)
            /\ ~bcall'.invoked
            /\ state' = state
            /\ failure_count' = failure_count
            /\ last_failure_time' = last_failure_time
       /\ (bpc = "idle" /\ state = "OPEN" /\ bpc' = "invoking") =>
            /\ state' = "HALF_OPEN"
            /\ now - last_failure_time > recovery_timeout]_vars

\* a call made exactly recovery_timeout after the failure that opened the
\* breaker is rejected, and the time of that failure is still in place
C37_Witness ==
    /\ bpc = "idle"
    /\ bcall.result = "rejected"
    /\ state = "OPEN"
    /\ recovery_timeout = 2
    /\ bcall.entry_now = last_failure_time + 2
    /\ bcall.entry_last_failure = last_failure_time
    /\ bcall.entry_count = failure_count

\* the step is the end of a call whose operation raised
RaiseStep == bpc = "invoking" /\ bpc' = "idle" /\ bcall'.result = "error"

\* C38: when the wrapped operation raises an error that is not in the
\* breaker's expected error set the error goes to the caller and state,
\* failure_count and last_failure_time stay as they were when it was
\* raised: the failure is not counted and the count is not reset; an
\* expected error goes to the caller after failure_count was incremented and
\* last_failure_time stamped.
C38_UnexpectedErrorNoBookkeeping ==
    [][RaiseStep =>
          /\ bcall'.kind \in BreakerErrorKinds
          /\ IF IsInstance(bcall'.kind, expected_exception)
             THEN /\ failure_count' = failure_count + 1
                  /\ last_failure_time' = now
             ELSE /\ state' = state
                  /\ failure_count' = failure_count
                  /\ last_failure_time' = last_failure_time]_vars

\* an error outside the expected set was raised after one counted failure:
\* the count is still 1 and the breaker still CLOSED
C38_Witness ==
    /\ bpc = "idle"
    /\ bcall.result = "error"
    /\ ~IsInstance(bcall.kind, expected_exception)
    /\ bcall.entry_count = 1
    /\ failure_threshold = 2
    /\ state = "CLOSED"
    /\ failure_count = 1
    /\ last_failure_time # NoTime
    /\ last_failure_time < now

\* rule i is among the indices in alerts
FiredIn(alerts, i) == \E j \in 1..Len(alerts) : alerts[j] = i

\* C39: a fired rule enters cooldown at evaluation time, whatever becomes of
\* its delivery: the evaluation stamps last_triggered of every rule it fires
\* before a send is attempted, the sends that follow are sends of the fired
\* rules and leave the rules as they are, and an evaluation made before the
\* cooldown of a rule has elapsed neither fires the rule nor creates a send
\* for it, whether the sends of its last firing succeeded, failed or could
\* not be made.
C39_CooldownRegardlessOfDelivery ==
    [][/\ Evaluates =>
            /\ sent' = {}
            /\ \A i \in 1..Len(alert_rules) :
                 /\ FiredIn(triggered_alerts', i) => alert_rules'[i].last_triggered = wall
                 /\ (/\ alert_rules[i].last_triggered # NoTime
                     /\ wall - alert_rules[i].last_triggered < alert_rules[i].cooldown_minutes) =>
                        /\ ~FiredIn(triggered_alerts', i)
                        /\ \A k \in 1..Len(alert_tasks') : alert_tasks'[k].rule # i
                        /\ alert_rules'[i] = alert_rules[i]
       /\ ~Evaluates =>
            /\ alert_rules' = alert_rules
            /\ \A x \in sent' : FiredIn(triggered_alerts, x.rule)]_vars

\* a rule fired with a snapshot its template cannot be formatted from, so
\* that nothing was delivered on the configured channels; a second
\* evaluation within its cooldown, with its condition true, has not fired it
C39_Witness ==
    /\ cycles = 2
    /\ Channels # {}
    /\ \E i \in 1..Len(alert_rules) :
         /\ alert_rules[i].enabled
         /\ ConditionHolds(alert_rules[i], metrics)
         /\ ~FiredIn(triggered_alerts, i)
         /\ wall - alert_rules[i].last_triggered < alert_rules[i].cooldown_minutes
         /\ wall > alert_rules[i].last_triggered
         /\ \E e \in 1..Len(alert_history) :
              /\ alert_history[e].alert_name = alert_rules[i].name
              /\ alert_history[e].timestamp = alert_rules[i].last_triggered
              /\ ~Formats(alert_rules[i], alert_history[e].metrics)

(***************************************************************************)
(* Properties of the rate limiter                                          *)
(***************************************************************************)
\* the calls of client c among the first n that returned True at a time in
\* lo .. hi
AdmittedIn(c, n, lo, hi) ==
    {i \in 1..n : /\ decisions[i].client = c
                  /\ decisions[i].allowed
                  /\ lo <= decisions[i].time
                  /\ decisions[i].time <= hi}

\* the times of the calls in the set, in call order
RECURSIVE TimesOf(_, _)
TimesOf(calls_made, from) ==
    IF from > Len(decisions) THEN << >>
    ELSE (IF from \in calls_made THEN <<decisions[from].time>> ELSE << >>)
             \o TimesOf(calls_made, from + 1)

\* the last call of client c (0: none)
LastCallOf(c) ==
    IF \E i \in 1..Len(decisions) : decisions[i].client = c
    THEN CHOOSE i \in 1..Len(decisions) :
             /\ decisions[i].client = c
             /\ \A j \in (i + 1)..Len(decisions) : decisions[j].client # c
    ELSE 0

\* C40: for every client the calls of is_allowed that returned True at
\* times inside an interval shorter than window_size are at most
\* max_requests; the list of a client holds the times of its admitted calls
\* only, never the time of a denied call; and the result of a call is
\* decided by the earlier admitted calls of the same client alone.
C40_SlidingWindowLimit ==
    /\ \A c \in Clients : \A lo \in 0..current_time :
         Cardinality(AdmittedIn(c, Len(decisions), lo, lo + window_size - 1)) <= max_requests
    /\ \A c \in DOMAIN requests :
         LET last == LastCallOf(c)
         IN /\ last > 0
            /\ requests[c] = TimesOf(AdmittedIn(c, last, decisions[last].time - window_size + 1,
                                                decisions[last].time), 1)
    /\ \A i \in 1..Len(decisions) :
         decisions[i].allowed
            = (Cardinality(AdmittedIn(decisions[i].client, i - 1,
                                      decisions[i].time - window_size + 1, decisions[i].time))
                 < max_requests)

\* a client that had made max_requests calls was denied while the window
\* held them, after another client had been admitted, and was admitted again
\* once the window had passed
C40_Witness ==
    /\ max_requests = 2
    /\ window_size = 2
    /\ \E k, j, l \in 1..Len(decisions) :
         /\ k < j /\ j < l
         /\ decisions[j].client = decisions[l].client
         /\ decisions[k].client # decisions[j].client
         /\ decisions[k].allowed
         /\ ~decisions[j].allowed
         /\ decisions[l].allowed
         /\ decisions[k].time < decisions[j].time
         /\ decisions[j].time < decisions[l].time
         /\ Cardinality(AdmittedIn(decisions[j].client, j - 1, 0, decisions[j].time)) = 2

====
